---- MODULE Spec2Model ----
(***************************************************************************)
(* A model of the job aggregation pipeline: the orchestrator of            *)
(* src/main.py (merge, filter, dedup, score, sort, write), JobFilter,      *)
(* JobScorer with its salary and deadline extractors, and the CSV          *)
(* persistence the orchestrator reads and appends to.                      *)
(*                                                                         *)
(* Representation.  A Python value that may be None is a sequence of       *)
(* length 0 (None) or 1 (the value).  A text (title, description) is the   *)
(* sequence of its phrases, each phrase a string kept exactly as written   *)
(* (case included); "a in text" and the regular expressions of the code    *)
(* are decided phrase by phrase by the tables below, which list what the   *)
(* code's substring test or pattern answers on that phrase.  A url is the  *)
(* sequence of its parts: blank parts (" "), a scheme part and a host      *)
(* part.  A date is a day number.                                          *)
(***************************************************************************)
EXTENDS Integers, Sequences, FiniteSets, TLC

VARIABLES
    pc,                 \* position of main(): the stage that runs next
    today,              \* the day datetime.now() falls on
    companies_metadata, \* JobScorer.companies_metadata, loaded at construction
    csv_rows,           \* the "Job URL" cells of the rows of the output CSV
    existing_urls,      \* main: existing_urls
    src_idx,            \* main: index of the next source to scrape
    all_jobs,           \* main: all_jobs
    scraper_stats,      \* main: scraper_stats, as a sequence of <<name, count>>
    filtered_jobs,      \* main: filtered_jobs
    unique_jobs,        \* main: unique_jobs
    scored_jobs,        \* main: scored_jobs
    written,            \* the list handed to csv_writer.write_jobs, if any
    outcome,            \* how main() ended
    trail,              \* the stages that have run to completion, in order
    scrape_log,         \* the scrape calls made so far, each with what it did
    probe               \* the input of the function under study (function specifications)

vars == << pc, today, companies_metadata, csv_rows, existing_urls, src_idx,
           all_jobs, scraper_stats, filtered_jobs, unique_jobs, scored_jobs,
           written, outcome, trail, scrape_log, probe >>

-----------------------------------------------------------------------------
(* Bounds of the model *)

\* the most records one scrape call returns
MaxPerScrape == 1

\* the day the run happens on
Today == 3000

-----------------------------------------------------------------------------
(* Optional values *)

None == << >>

Some(x) == << x >>

IsNone(o) == o = << >>

-----------------------------------------------------------------------------
(* Strings: str.lower() and the "in" test, phrase by phrase *)

\* the phrases that change under str.lower(), with their lower-case form
LowerTable ==
    << <<"Software Engineer", "software engineer">>,
       <<"Backend Engineer", "backend engineer">>,
       <<"Senior", "senior">>,
       <<"Intern", "intern">>,
       <<"Fresher", "fresher">>,
       <<"Full-Time", "full-time">>,
       <<"5+ Years", "5+ years">>,
       <<"Python", "python">>,
       <<"Java", "java">>,
       <<"SQL", "sql">>,
       <<"15-25 LPA", "15-25 lpa">>,
       <<"Deadline: Jan 15, 2024", "deadline: jan 15, 2024">>,
       <<"Google", "google">>,
       <<"Google India", "google india">>,
       <<"Stripe", "stripe">>,
       <<"Acme", "acme">>,
       <<"Initech", "initech">>,
       <<"Hooli", "hooli">>,
       <<"Package:", "package:">>,
       <<"Salary:", "salary:">>,
       <<"1500000-2500000 LPA", "1500000-2500000 lpa">> >>

Lower(s) ==
    IF \E i \in DOMAIN LowerTable : LowerTable[i][1] = s
    THEN LET i == CHOOSE i \in DOMAIN LowerTable : LowerTable[i][1] = s
         IN  LowerTable[i][2]
    ELSE s

\* text.lower()
LowerText(text) == [i \in DOMAIN text |-> Lower(text[i])]

\* <<a, b>>: a is a proper substring of the phrase b
SubstringPairs ==
    { <<"intern", "internship">>, <<"intern", "international">>,
      <<"google", "google india">>,
      <<"sde", "sde 1">>,
      <<"2 years", "0-2 years">>, <<"3 years", "1-3 years">> }

\* a in b, for two strings
StrIn(a, b) == a = b \/ <<a, b>> \in SubstringPairs

\* kw in text, for a text given by its phrases
TextHas(text, kw) == \E i \in DOMAIN text : StrIn(kw, text[i])

\* f"{a} {b}"
Join(a, b) == a \o b

-----------------------------------------------------------------------------
(* Configuration: src/utils/config.py *)

SEARCH_TERMS == << "software engineer", "backend engineer", "sde" >>

EXPERIENCE_LEVELS ==
    << "fresher", "0-2 years", "1 year", "1-3 years", "2 years", "3 years" >>

EXCLUDE_KEYWORDS == << "intern", "internship" >>

YOUR_SKILLS == << "Java", "Python", "SQL", "java" >>

-----------------------------------------------------------------------------
(* JobFilter: src/filters/job_filter.py *)

\* JobFilter.__init__: the case-folded keyword lists
search_terms == [i \in DOMAIN SEARCH_TERMS |-> Lower(SEARCH_TERMS[i])]

experience_levels == [i \in DOMAIN EXPERIENCE_LEVELS |-> Lower(EXPERIENCE_LEVELS[i])]

exclude_keywords == [i \in DOMAIN EXCLUDE_KEYWORDS |-> Lower(EXCLUDE_KEYWORDS[i])]

\* the phrases on which one of the six experience_patterns matches
JuniorCuePhrases ==
    { "0-2 years", "1-3 years", "2+ years", "5+ years", "fresher",
      "entry level", "junior" }

\* the phrases on which one of the six senior_patterns matches
SeniorCuePhrases ==
    { "5+ years", "10+ years", "senior", "lead", "principal", "architect" }

\* the phrases on which r'\b([1-3])\s*(years?|yrs?)\b' matches
ReasonableExpPhrases == { "0-2 years", "1-3 years", "3 years" }

\* a role test that lets every record through
matches_role_always(job_title, job_description) == TRUE

matches_role(job_title, job_description) ==
    LET text == LowerText(Join(job_title, job_description))
    IN  \E t \in DOMAIN search_terms : TextHas(text, search_terms[t])

\* an eligibility test whose internship exclusion knows no override word
is_experience_eligible_no_override(job_title, job_description) ==
    LET text == LowerText(Join(job_title, job_description))
    IN  IF \E k \in DOMAIN exclude_keywords : TextHas(text, exclude_keywords[k])
        THEN FALSE
        ELSE IF ~ (\E i \in DOMAIN text : text[i] \in JuniorCuePhrases) THEN TRUE
        ELSE IF \E l \in DOMAIN experience_levels : TextHas(text, experience_levels[l])
        THEN TRUE
        ELSE ~ (\E i \in DOMAIN text : text[i] \in SeniorCuePhrases)

\* an eligibility test that looks for the senior cues whether or not the
\* text mentions experience
is_experience_eligible_senior_first(job_title, job_description) ==
    LET text == LowerText(Join(job_title, job_description))
    IN  IF \E k \in DOMAIN exclude_keywords :
              /\ TextHas(text, exclude_keywords[k])
              /\ ~ (TextHas(text, "full-time") \/ TextHas(text, "permanent"))
        THEN FALSE
        ELSE IF \E l \in DOMAIN experience_levels : TextHas(text, experience_levels[l])
        THEN TRUE
        ELSE ~ (\E i \in DOMAIN text : text[i] \in SeniorCuePhrases)

is_experience_eligible(job_title, job_description) ==
    LET text == LowerText(Join(job_title, job_description))
        excluded ==
            \E k \in DOMAIN exclude_keywords :
                /\ TextHas(text, exclude_keywords[k])
                /\ ~ (TextHas(text, "full-time") \/ TextHas(text, "permanent"))
        has_experience_mention ==
            \E i \in DOMAIN text : text[i] \in JuniorCuePhrases
        matches_level ==
            \E l \in DOMAIN experience_levels : TextHas(text, experience_levels[l])
        senior == \E i \in DOMAIN text : text[i] \in SeniorCuePhrases
        reasonable_exp == \E i \in DOMAIN text : text[i] \in ReasonableExpPhrases
    IN  IF excluded THEN FALSE
        ELSE IF ~ has_experience_mention THEN TRUE
        ELSE IF matches_level THEN TRUE
        ELSE IF senior THEN FALSE
        ELSE IF reasonable_exp THEN TRUE
        ELSE TRUE

\* a job record as a source hands it over.  kind: "dict" a keyed record,
\* "empty" the empty dict, "none" a value that is no dict, "poison" a dict
\* whose title is an object whose conversion to str raises
Job(kind, title, company, url, description, posted_date, source) ==
    [ kind |-> kind, title |-> title, company |-> company,
      location |-> "", url |-> url, experience |-> "",
      description |-> description, posted_date |-> posted_date,
      source |-> source, computed |-> None ]

\* filter_job raises: str(job.get('title', '') or '') on a poisoned title
filter_job_raises(job) == job.kind = "poison"

filter_job(job) ==
    IF job.kind \in {"none", "empty"} THEN FALSE
    ELSE LET job_title == LowerText(job.title)
             job_description == LowerText(job.description)
         IN  IF ~ matches_role(job_title, job_description) THEN FALSE
             ELSE IF ~ is_experience_eligible(job_title, job_description) THEN FALSE
             ELSE TRUE

RECURSIVE FilterFromBackwards(_, _)
\* a comprehension that collects the kept records in reverse order
FilterFromBackwards(jobs, i) ==
    IF i > Len(jobs) THEN << >>
    ELSE IF filter_job(jobs[i]) THEN FilterFromBackwards(jobs, i + 1) \o << jobs[i] >>
    ELSE FilterFromBackwards(jobs, i + 1)

RECURSIVE FilterFrom(_, _)
\* the list comprehension of filter_jobs from position i on
FilterFrom(jobs, i) ==
    IF i > Len(jobs) THEN << >>
    ELSE IF filter_job(jobs[i]) THEN << jobs[i] >> \o FilterFrom(jobs, i + 1)
    ELSE FilterFrom(jobs, i + 1)

\* a filter_jobs that would catch the exception of each record
filter_jobs_raises_never(jobs) == FALSE

\* filter_jobs raises when filter_job raises on any record of the list
filter_jobs_raises(jobs) == \E i \in DOMAIN jobs : filter_job_raises(jobs[i])

\* a comprehension that loses the first record it keeps
filter_jobs_skipping(jobs) ==
    IF FilterFrom(jobs, 1) = << >> THEN << >> ELSE Tail(FilterFrom(jobs, 1))

filter_jobs(jobs) == FilterFrom(jobs, 1)

-----------------------------------------------------------------------------
(* SalaryExtractor: src/utils/salary_extractor.py *)

\* what the ten patterns find on a phrase (re.IGNORECASE, so by the phrase's
\* lower-case form): <<phrase, index of the pattern, currency, number of
\* groups, min amount, max amount>>, the amounts as _normalize_amount returns
\* them ("k" is a factor of 1000)
SalaryMatches ==
    << <<"$90k-110k", 1, "USD", 2, 90000, 110000>>,
       <<"$0k-0k", 1, "USD", 2, 0, 0>>,
       <<"15-25 lpa", 3, "INR", 2, 15, 25>>,
       <<"12 lpa", 4, "INR", 1, 12, 12>>,
       <<"$80,000-$120,000", 2, "USD", 2, 80000, 120000>>,
       <<"1500000-2500000 lpa", 3, "INR", 2, 1500000, 2500000>>,
       <<"1-3 years", 10, "USD", 2, 1, 3>> >>

\* the number of patterns of SalaryExtractor.__init__
NumSalaryPatterns == 10

\* the currency symbol of the last two formatting branches
SalarySymbol(currency, with_inr) ==
    CASE currency = "USD" -> "$"
      [] currency = "EUR" -> "EUR"
      [] currency = "GBP" -> "GBP"
      [] currency = "INR" /\ with_inr -> "INR"
      [] OTHER -> ""

\* the string extract() formats from one match, as the record of its parts:
\* style "lpa" shows tenths of a lakh, "k" thousands, "plain" the amount
FormatSalary(m) ==
    LET currency == m[3]
        lo == m[5]
        hi == m[6]
        single == m[4] = 1
    IN  IF currency = "INR" /\ lo >= 1000
        THEN [ style |-> "lpa", symbol |-> "INR", single |-> single,
               lo |-> (lo + 5000) \div 10000, hi |-> (hi + 5000) \div 10000 ]
        ELSE IF lo >= 1000
        THEN [ style |-> "k", symbol |-> SalarySymbol(currency, FALSE),
               single |-> single,
               lo |-> (lo + 500) \div 1000, hi |-> (hi + 500) \div 1000 ]
        ELSE [ style |-> "plain", symbol |-> SalarySymbol(currency, TRUE),
               single |-> single, lo |-> lo, hi |-> hi ]

\* the matches of pattern p in the text, in text order, that carry amounts
\* the code accepts (a zero amount is falsy and the match is passed over)
SalaryHits(text, p) ==
    { <<i, k>> \in (DOMAIN text) \X (DOMAIN SalaryMatches) :
        /\ SalaryMatches[k][1] = Lower(text[i])
        /\ SalaryMatches[k][2] = p
        /\ SalaryMatches[k][5] # 0
        /\ SalaryMatches[k][6] # 0 }

RECURSIVE SalaryFrom(_, _)
\* the loop over the patterns from pattern p on: first valid match wins
SalaryFrom(text, p) ==
    IF p > NumSalaryPatterns THEN None
    ELSE LET hits == SalaryHits(text, p)
         IN  IF hits = {} THEN SalaryFrom(text, p + 1)
             ELSE LET h == CHOOSE h \in hits : \A g \in hits : h[1] <= g[1]
                  IN  Some(FormatSalary(SalaryMatches[h[2]]))

\* SalaryExtractor.extract
SalaryExtract(text) == IF text = << >> THEN None ELSE SalaryFrom(text, 1)

-----------------------------------------------------------------------------
(* DeadlineExtractor: src/utils/deadline_extractor.py *)

\* the phrases that hold a cue word and a date one of the patterns parses,
\* with the day number of that date
DeadlineMatches == << <<"deadline: jan 15, 2024", 2900>> >>

\* DeadlineExtractor.extract: the ISO date, here its day number
DeadlineExtract(text) ==
    LET hits == { <<i, k>> \in (DOMAIN text) \X (DOMAIN DeadlineMatches) :
                    DeadlineMatches[k][1] = Lower(text[i]) }
    IN  IF hits = {} THEN None
        ELSE LET h == CHOOSE h \in hits : \A g \in hits : h[1] <= g[1]
             IN  Some(DeadlineMatches[h[2]][2])

\* get_days_until_deadline: (deadline - now).days, the deadline at midnight
\* and now a moment later in the day than midnight, so the floor is one less
\* than the difference of the day numbers
get_days_until_deadline(deadline, now) == Some(deadline[1] - now - 1)

-----------------------------------------------------------------------------
(* JobScorer: src/utils/job_scorer.py *)

\* JobScorer.__init__: the lower-cased skills vocabulary
user_skills == [i \in DOMAIN YOUR_SKILLS |-> Lower(YOUR_SKILLS[i])]

\* a posted_date string, by the form of its content: "empty", "text" (no
\* format and no relative pattern fits), "iso" (n the day number of the
\* date), "days_ago", "weeks_ago", "months_ago" (n the count)
PostedDate(form, n) == [ form |-> form, n |-> n ]

\* _parse_posted_date: the day the date falls on, or None
parse_posted_date(posted_date, now) ==
    CASE posted_date.form = "empty" -> None
      [] posted_date.form = "iso" -> Some(posted_date.n)
      [] posted_date.form = "days_ago" -> Some(now - posted_date.n)
      [] posted_date.form = "weeks_ago" -> Some(now - 7 * posted_date.n)
      [] posted_date.form = "months_ago" -> Some(now - 30 * posted_date.n)
      [] OTHER -> None

\* a difference in days that would be returned as it is
calculate_days_since_posted_unclamped(posted_date, now) ==
    LET parsed_date == parse_posted_date(posted_date, now)
    IN  IF IsNone(parsed_date) THEN None ELSE Some(now - parsed_date[1])

\* _calculate_days_since_posted: max(0, delta.days)
calculate_days_since_posted(posted_date, now) ==
    LET parsed_date == parse_posted_date(posted_date, now)
    IN  IF IsNone(parsed_date) THEN None
        ELSE LET delta_days == now - parsed_date[1]
             IN  Some(IF delta_days > 0 THEN delta_days ELSE 0)

\* a bucketing that names the second week before the first
get_freshness_indicator_swapped(days_since_posted) ==
    IF IsNone(days_since_posted) THEN "Unknown"
    ELSE IF days_since_posted[1] <= 1 THEN "Fresh"
    ELSE IF days_since_posted[1] <= 7 THEN "Moderate"
    ELSE IF days_since_posted[1] <= 14 THEN "Recent"
    ELSE "Old"

get_freshness_indicator(days_since_posted) ==
    IF IsNone(days_since_posted) THEN "Unknown"
    ELSE IF days_since_posted[1] <= 1 THEN "Fresh"
    ELSE IF days_since_posted[1] <= 7 THEN "Recent"
    ELSE IF days_since_posted[1] <= 14 THEN "Moderate"
    ELSE "Old"

\* an entry of the companies metadata: the company name as its key and the
\* value stored under it, a dict with a tier (is_dict) or some other JSON value
MetaEntry(name, is_dict, tier) == [ name |-> name, is_dict |-> is_dict, tier |-> tier ]

\* metadata.get('tier') on the value of an entry: raises on a value that is
\* no dict (AttributeError)
TierOf(entry) ==
    IF entry.is_dict THEN [ raised |-> FALSE, tier |-> entry.tier ]
    ELSE [ raised |-> TRUE, tier |-> None ]

\* the first index, in the order of the metadata, among the indices that hit
FirstIndex(hits) ==
    CHOOSE i \in hits : \A j \in hits : i <= j

\* a lookup that tries the substring rule first and the exact key last
get_company_tier_partial_first(company, metadata) ==
    LET company_lower == Lower(company)
        Exact == { i \in DOMAIN metadata : metadata[i].name = company }
        Folded == { i \in DOMAIN metadata : Lower(metadata[i].name) = company_lower }
        Partial == { i \in DOMAIN metadata :
                       \/ StrIn(Lower(metadata[i].name), company_lower)
                       \/ StrIn(company_lower, Lower(metadata[i].name)) }
    IN  IF company = "" THEN [ raised |-> FALSE, tier |-> None ]
        ELSE IF Partial # {} THEN TierOf(metadata[FirstIndex(Partial)])
        ELSE IF Folded # {} THEN TierOf(metadata[FirstIndex(Folded)])
        ELSE IF Exact # {} THEN TierOf(metadata[FirstIndex(Exact)])
        ELSE [ raised |-> FALSE, tier |-> None ]

get_company_tier(company, metadata) ==
    LET company_lower == Lower(company)
        Exact == { i \in DOMAIN metadata : metadata[i].name = company }
        Folded == { i \in DOMAIN metadata : Lower(metadata[i].name) = company_lower }
        Partial == { i \in DOMAIN metadata :
                       \/ StrIn(Lower(metadata[i].name), company_lower)
                       \/ StrIn(company_lower, Lower(metadata[i].name)) }
    IN  IF company = "" THEN [ raised |-> FALSE, tier |-> None ]
        ELSE IF Exact # {} THEN TierOf(metadata[FirstIndex(Exact)])
        ELSE IF Folded # {} THEN TierOf(metadata[FirstIndex(Folded)])
        ELSE IF Partial # {} THEN TierOf(metadata[FirstIndex(Partial)])
        ELSE [ raised |-> FALSE, tier |-> None ]

\* the number of entries of user_skills that occur in the text as a word
matched_count(job_title, job_description) ==
    LET text == LowerText(Join(job_title, job_description))
    IN  Cardinality({ k \in DOMAIN user_skills :
                        \E i \in DOMAIN text : text[i] = user_skills[k] })

\* _calculate_skills_match, in tenths of a percent (the code's float, which
\* calculate_score rounds to one decimal)
calculate_skills_match(job_title, job_description) ==
    LET total_skills == Len(user_skills)
    IN  IF total_skills = 0 THEN 0
        ELSE LET match_pct == (matched_count(job_title, job_description) * 1000)
                                  \div total_skills
             IN  IF match_pct > 1000 THEN 1000 ELSE match_pct

\* a recency step that awards more than the documented 40 points
recency_score_generous(days) ==
    IF days <= 1 THEN 50
    ELSE IF days <= 3 THEN 30
    ELSE IF days <= 7 THEN 20
    ELSE IF days <= 14 THEN 10
    ELSE 0

\* a recency step whose last paying day is the 13th
recency_score_short(days) ==
    IF days <= 1 THEN 40
    ELSE IF days <= 3 THEN 30
    ELSE IF days <= 7 THEN 20
    ELSE IF days < 14 THEN 10
    ELSE 0

\* recency_score of calculate_score, for a known number of days
recency_score(days) ==
    IF days <= 1 THEN 40
    ELSE IF days <= 3 THEN 30
    ELSE IF days <= 7 THEN 20
    ELSE IF days <= 14 THEN 10
    ELSE 0

company_score(company_tier) ==
    IF company_tier = Some("FAANG") THEN 30
    ELSE IF company_tier = Some("unicorn") THEN 25
    ELSE IF company_tier = Some("well_funded") THEN 15
    ELSE 0

\* a skills component that would depend on the day of the call
skills_score_by_day(skills_match_pct) ==
    IF today = Today THEN skills_match_pct \div 100 ELSE 0

\* int(skills_match_pct / 10)
skills_score(skills_match_pct) == skills_match_pct \div 100

\* 'score': min(100, score)
capped_score(score) == IF score < 100 THEN score ELSE 100

\* calculate_score: raised, or the returned dictionary in score_data
calculate_score(job, metadata, now) ==
    LET days_since_posted == calculate_days_since_posted(job.posted_date, now)
        tier == get_company_tier(job.company, metadata)
        text == Join(job.title, job.description)
        salary == SalaryExtract(text)
        salary_score == IF IsNone(salary) THEN 0 ELSE 20
        skills_match_pct == calculate_skills_match(job.title, job.description)
        deadline == DeadlineExtract(text)
        \* score, as the four "score +=" statements leave it
        score_1 == IF IsNone(days_since_posted) THEN 0
                   ELSE 0 + recency_score(days_since_posted[1])
        score_2 == score_1 + company_score(tier.tier)
        score_3 == IF IsNone(salary) THEN score_2 ELSE score_2 + salary_score
        score_4 == score_3 + skills_score(skills_match_pct)
        breakdown == [ recency |-> IF IsNone(days_since_posted) THEN 0
                                   ELSE recency_score(days_since_posted[1]),
                       company |-> company_score(tier.tier),
                       salary |-> salary_score,
                       skills |-> skills_score(skills_match_pct) ]
    IN  IF tier.raised THEN [ raised |-> TRUE, score_data |-> None ]
        ELSE [ raised |-> FALSE,
               score_data |-> Some(
                 [ score |-> capped_score(score_4),
                   days_since_posted |-> days_since_posted,
                   freshness |-> get_freshness_indicator(days_since_posted),
                   salary |-> salary,
                   deadline |-> deadline,
                   days_until_deadline |->
                       IF IsNone(deadline) THEN None
                       ELSE get_days_until_deadline(deadline, now),
                   skills_match_pct |-> skills_match_pct,
                   company_tier |-> tier.tier,
                   breakdown |-> breakdown ]) ]

-----------------------------------------------------------------------------
(* Urls and the CSV: src/utils/csv_writer.py *)

RECURSIVE StripLeft(_)
StripLeft(url) ==
    IF url # << >> /\ Head(url) = " " THEN StripLeft(Tail(url)) ELSE url

RECURSIVE StripRight(_)
StripRight(url) ==
    IF url # << >> /\ url[Len(url)] = " "
    THEN StripRight(SubSeq(url, 1, Len(url) - 1))
    ELSE url

\* str.strip()
Strip(url) == StripRight(StripLeft(url))

\* url.startswith(('http://', 'https://'))
HasScheme(url) == url # << >> /\ Head(url) \in {"http://", "https://"}

\* the url parts that are a path, not a host
PathParts == { "/jobs/1" }

\* urlparse(url).netloc of a url that starts with a scheme: the part after
\* the scheme when it is a host, empty when a path follows the scheme or
\* nothing does
urlparse_netloc(url) ==
    IF Len(url) >= 2 /\ url[2] \notin PathParts THEN url[2] ELSE ""

\* _sanitize_csv_value: a value that starts with a formula character gets
\* an apostrophe in front
sanitize_csv_value(value) ==
    IF value = << >> THEN << >>
    ELSE IF Head(value) \in { "=", "+", "-", "@" } THEN << "'" >> \o value
    ELSE value

\* _format_url: the "Job URL" cell written for a url
format_url(raw) ==
    LET url == Strip(raw)
    IN  IF url = << >> THEN << >>
        ELSE LET full == IF HasScheme(url) THEN url ELSE << "https://" >> \o url
             IN  IF urlparse_netloc(full) # "" THEN full
                 ELSE sanitize_csv_value(full)

\* get_existing_urls: the stripped, non-empty "Job URL" cells of the file
get_existing_urls(rows) ==
    { Strip(rows[i]) : i \in { j \in DOMAIN rows : Strip(rows[j]) # << >> } }

-----------------------------------------------------------------------------
(* The orchestrator: src/main.py *)

\* the sources main() scrapes, in invocation order; per_location: the source
\* is called once per search location, each call in its own try
Sources ==
    << [ name |-> "Company Career Pages", per_location |-> FALSE ],
       [ name |-> "LinkedIn", per_location |-> TRUE ],
       [ name |-> "Otta", per_location |-> FALSE ] >>

SEARCH_LOCATIONS == << "India", "UAE" >>

\* the companies metadata files the scorer may have loaded
MetadataChoices ==
    { << MetaEntry("Google", TRUE, Some("FAANG")),
         MetaEntry("Stripe", TRUE, Some("unicorn")),
         MetaEntry("Acme", TRUE, Some("well_funded")) >>,
      << MetaEntry("Google", TRUE, Some("FAANG")),
         MetaEntry("Acme", FALSE, None) >> }

UrlA == << "https://", "a.com" >>

UrlC == << "https://", "c.com" >>

\* the records each source may return: records that pass the filter and
\* records that do not, urls that are new, persisted, blank or shared up to
\* blanks, postings of known and of unknown age, with and without a salary
Catalogue(source) ==
    CASE source = "Company Career Pages" ->
           { Job("dict", << "Software Engineer" >>, "Initech", << "https://", "f.com" >>,
                 << "Fresher", "$90k-110k", "Python" >>, PostedDate("days_ago", 2),
                 source),
             Job("dict", << "Senior", "Backend Engineer" >>, "Stripe",
                 << "https://", "b.com" >>, << "5+ Years" >>,
                 PostedDate("days_ago", 1), source),
             Job("none", << >>, "", << >>, << >>, PostedDate("empty", 0), source) }
      [] source = "LinkedIn" ->
           { Job("dict", << "Backend Engineer" >>, "Initech",
                 << " ", "https://", "a.com", " " >>, << >>,
                 PostedDate("empty", 0), source),
             Job("dict", << "Software Engineer" >>, "", UrlC, << >>,
                 PostedDate("iso", Today - 1500), source),
             Job("poison", << "Software Engineer" >>, "", << "https://", "d.com" >>,
                 << >>, PostedDate("empty", 0), source),
             Job("dict", << "Software Engineer" >>, "Google", << "https://", "g.com" >>,
                 << >>, PostedDate("days_ago", 3), source) }
      [] OTHER ->
           { Job("dict", << "sde 1" >>, "Acme", UrlA, << "Fresher" >>,
                 PostedDate("days_ago", 2), source),
             Job("dict", << "Software Engineer" >>, "Google India", << " " >>,
                 << >>, PostedDate("weeks_ago", 1), source),
             Job("dict", << "Backend Engineer" >>, "google", << "e.com" >>,
                 << "15-25 LPA" >>, PostedDate("text", 0), source) }

\* the sequences over S of length at most n
RECURSIVE SeqsUpTo(_, _)
SeqsUpTo(S, n) ==
    IF n = 0 THEN { << >> }
    ELSE LET shorter == SeqsUpTo(S, n - 1)
         IN  shorter \cup { Append(q, x) : q \in shorter, x \in S }

\* what one scrape call may do: raise, or return a list of records
ScrapeOutcomes(source) ==
    { [ raised |-> TRUE, jobs |-> << >> ] }
        \cup { [ raised |-> FALSE, jobs |-> q ] :
                 q \in SeqsUpTo(Catalogue(source), MaxPerScrape) }

\* the count scraper_stats records for a single-call source
stat_after_scrape(out) == IF out.raised THEN 0 ELSE Len(out.jobs)

\* a handler that would drop the working set when a source raises
merge_after_scrape_reset(all, out) == IF out.raised THEN << >> ELSE all \o out.jobs

\* all_jobs after the try block of a single-call source
merge_after_scrape(all, out) == IF out.raised THEN all ELSE all \o out.jobs

RECURSIVE ConcatOk(_)
\* linkedin_jobs: the lists of the calls that returned, in call order
ConcatOk(outs) ==
    IF outs = << >> THEN << >>
    ELSE (IF Head(outs).raised THEN << >> ELSE Head(outs).jobs) \o ConcatOk(Tail(outs))

\* a key that is not trimmed
dedup_key_untrimmed(job) == job.url

\* a dedup key that gives a record without url a placeholder
dedup_key_placeholder(job) ==
    IF Strip(job.url) = << >> THEN << "about:blank" >> ELSE Strip(job.url)

\* the key the dedup step compares: str(job.get('url', '') or '').strip()
dedup_key(job) == Strip(job.url)

\* a seen set that starts empty
seen_at_start_empty(existing) == {}

\* seen_urls = set(existing_urls)
seen_at_start(existing) == existing

RECURSIVE DedupFrom(_, _, _)
\* the dedup loop from position i on, with the urls seen so far
DedupFrom(jobs, i, seen_urls) ==
    IF i > Len(jobs) THEN << >>
    ELSE IF jobs[i].kind \in {"none", "empty"} THEN DedupFrom(jobs, i + 1, seen_urls)
    ELSE LET job_url == dedup_key(jobs[i])
         IN  IF job_url # << >> /\ job_url \notin seen_urls
             THEN << jobs[i] >> \o DedupFrom(jobs, i + 1, seen_urls \cup { job_url })
             ELSE DedupFrom(jobs, i + 1, seen_urls)

\* a dedup step that keeps every record
remove_duplicates_keeping_all(jobs, existing) == jobs

remove_duplicates(jobs, existing) == DedupFrom(jobs, 1, seen_at_start(existing))

\* the computed fields main() writes on a record when calculate_score raised
DefaultComputed ==
    [ priority_score |-> 0, days_since_posted |-> None, freshness |-> "Unknown",
      salary |-> None, deadline |-> None, days_until_deadline |-> None,
      skills_match_pct |-> 0 ]

\* a scoring loop that would blank the posted_date of the record it scores
score_job_overwriting(job, metadata, now) ==
    LET r == calculate_score(job, metadata, now)
    IN  [ job EXCEPT !.posted_date = PostedDate("empty", 0),
                     !.computed = Some(IF r.raised THEN DefaultComputed
                                       ELSE [ DefaultComputed EXCEPT
                                                !.priority_score = r.score_data[1].score ]) ]

\* the body of the scoring loop for one record
score_job(job, metadata, now) ==
    LET r == calculate_score(job, metadata, now)
    IN  IF r.raised THEN [ job EXCEPT !.computed = Some(DefaultComputed) ]
        ELSE LET d == r.score_data[1]
             IN  [ job EXCEPT !.computed = Some(
                     [ priority_score |-> d.score,
                       days_since_posted |-> d.days_since_posted,
                       freshness |-> d.freshness,
                       salary |-> d.salary,
                       deadline |-> d.deadline,
                       days_until_deadline |-> d.days_until_deadline,
                       skills_match_pct |-> d.skills_match_pct ]) ]

\* the value the sort key uses for a missing days_since_posted
MissingDaysKey == 999

\* a sort key that puts the lowest score first
sort_key_ascending(job) ==
    LET c == job.computed[1]
    IN  << c.priority_score,
           IF IsNone(c.days_since_posted) THEN MissingDaysKey
           ELSE c.days_since_posted[1] >>

\* the sort key of main(): (-priority_score, days_since_posted or 999)
sort_key(job) ==
    LET c == job.computed[1]
    IN  << 0 - c.priority_score,
           IF IsNone(c.days_since_posted) THEN MissingDaysKey
           ELSE c.days_since_posted[1] >>

\* tuple comparison a < b
KeyLess(a, b) == a[1] < b[1] \/ (a[1] = b[1] /\ a[2] < b[2])

RECURSIVE InsertStable(_, _)
\* x inserted into a sorted list after every element whose key is not greater
InsertStable(sorted, x) ==
    IF sorted = << >> THEN << x >>
    ELSE IF KeyLess(sort_key(x), sort_key(Head(sorted)))
    THEN << x >> \o sorted
    ELSE << Head(sorted) >> \o InsertStable(Tail(sorted), x)

RECURSIVE SortFrom(_, _, _)
SortFrom(jobs, i, sorted) ==
    IF i > Len(jobs) THEN sorted
    ELSE SortFrom(jobs, i + 1, InsertStable(sorted, jobs[i]))

\* list.sort(key=...): stable, ascending by key
sort_jobs(jobs) == SortFrom(jobs, 1, << >>)

\* the stages of a run, in the order main() runs them
Stages == << "merge", "filter", "dedup", "score", "sort", "write" >>

\* the output CSV a run may find
CsvChoices == { << >>, << UrlA >> }

Init ==
    /\ pc = "start"
    /\ today = Today
    /\ companies_metadata \in MetadataChoices
    /\ csv_rows \in CsvChoices
    /\ existing_urls = {}
    /\ src_idx = 1
    /\ all_jobs = << >>
    /\ scraper_stats = << >>
    /\ filtered_jobs = << >>
    /\ unique_jobs = << >>
    /\ scored_jobs = << >>
    /\ written = None
    /\ outcome = "running"
    /\ trail = << >>
    /\ scrape_log = << >>
    /\ probe = << >>

\* pc after the source at src_idx: the next source, or the filter stage
AfterSource == IF src_idx = Len(Sources) THEN "filter" ELSE "scrape"

\* trail after the source at src_idx
TrailAfterSource == IF src_idx = Len(Sources) THEN Append(trail, "merge") ELSE trail

\* main 114-123: read the persisted urls; a failure to read leaves the set empty
GetExistingUrls ==
    /\ pc = "start"
    /\ \E read_ok \in BOOLEAN :
          existing_urls' = IF read_ok THEN get_existing_urls(csv_rows) ELSE {}
    /\ pc' = "scrape"
    /\ UNCHANGED << today, companies_metadata, csv_rows, src_idx, all_jobs,
                    scraper_stats, filtered_jobs, unique_jobs, scored_jobs,
                    written, outcome, trail, scrape_log, probe >>

\* main 132-141, 291-303: one source, one scrape call in a try block
ScrapeSingle ==
    /\ pc = "scrape"
    /\ ~ Sources[src_idx].per_location
    /\ LET name == Sources[src_idx].name
       IN  \E out \in ScrapeOutcomes(name) :
             /\ all_jobs' = merge_after_scrape(all_jobs, out)
             /\ scraper_stats' = Append(scraper_stats, << name, stat_after_scrape(out) >>)
             /\ scrape_log' = Append(scrape_log,
                    [ source |-> name, raised |-> out.raised, jobs |-> out.jobs ])
    /\ src_idx' = src_idx + 1
    /\ pc' = AfterSource
    /\ trail' = TrailAfterSource
    /\ UNCHANGED << today, companies_metadata, csv_rows, existing_urls,
                    filtered_jobs, unique_jobs, scored_jobs, written, outcome, probe >>

\* main 143-209: one source called once per search location, each call in
\* its own try block; the lists of the calls that returned are merged
ScrapeLocations ==
    /\ pc = "scrape"
    /\ Sources[src_idx].per_location
    /\ LET name == Sources[src_idx].name
       IN  \E outs \in [ DOMAIN SEARCH_LOCATIONS -> ScrapeOutcomes(name) ] :
             LET source_jobs == ConcatOk(outs)
             IN  /\ all_jobs' = all_jobs \o source_jobs
                 /\ scraper_stats' = Append(scraper_stats, << name, Len(source_jobs) >>)
                 /\ scrape_log' = scrape_log \o
                        [ l \in DOMAIN SEARCH_LOCATIONS |->
                            [ source |-> name, raised |-> outs[l].raised,
                              jobs |-> outs[l].jobs ] ]
    /\ src_idx' = src_idx + 1
    /\ pc' = AfterSource
    /\ trail' = TrailAfterSource
    /\ UNCHANGED << today, companies_metadata, csv_rows, existing_urls,
                    filtered_jobs, unique_jobs, scored_jobs, written, outcome, probe >>

\* main 335-376: nothing scraped ends the run; filter_jobs in a try block
\* whose handler ends the run; nothing left after filtering ends the run
FilterStage ==
    /\ pc = "filter"
    /\ IF all_jobs = << >>
       THEN /\ outcome' = "no_jobs"
            /\ pc' = "done"
            /\ UNCHANGED << filtered_jobs, trail >>
       ELSE IF filter_jobs_raises(all_jobs)
       THEN /\ outcome' = "filter_failed"
            /\ pc' = "done"
            /\ UNCHANGED << filtered_jobs, trail >>
       ELSE /\ filtered_jobs' = filter_jobs(all_jobs)
            /\ trail' = Append(trail, "filter")
            /\ IF filtered_jobs' = << >>
               THEN outcome' = "no_match" /\ pc' = "done"
               ELSE outcome' = outcome /\ pc' = "dedup"
    /\ UNCHANGED << today, companies_metadata, csv_rows, existing_urls, src_idx,
                    all_jobs, scraper_stats, unique_jobs, scored_jobs, written,
                    scrape_log, probe >>

\* a run that would go on to score and write an empty list
after_dedup_going_on(unique) == "score"

\* main 391-397: the run returns when the dedup step left nothing
after_dedup(unique) == IF unique = << >> THEN "done" ELSE "score"

\* main 378-397: drop the records already persisted or seen in this run
DedupStage ==
    /\ pc = "dedup"
    /\ unique_jobs' = remove_duplicates(filtered_jobs, existing_urls)
    /\ trail' = Append(trail, "dedup")
    /\ IF after_dedup(unique_jobs') = "done"
       THEN outcome' = "no_new" /\ pc' = "done"
       ELSE outcome' = outcome /\ pc' = "score"
    /\ UNCHANGED << today, companies_metadata, csv_rows, existing_urls, src_idx,
                    all_jobs, scraper_stats, filtered_jobs, scored_jobs, written,
                    scrape_log, probe >>

\* main 399-424: score every record, with defaults when scoring raises
ScoreStage ==
    /\ pc = "score"
    /\ scored_jobs' = [ i \in DOMAIN unique_jobs |->
                          score_job(unique_jobs[i], companies_metadata, today) ]
    /\ trail' = Append(trail, "score")
    /\ pc' = "sort"
    /\ UNCHANGED << today, companies_metadata, csv_rows, existing_urls, src_idx,
                    all_jobs, scraper_stats, filtered_jobs, unique_jobs, written,
                    outcome, scrape_log, probe >>

\* main 426-430
SortStage ==
    /\ pc = "sort"
    /\ scored_jobs' = sort_jobs(scored_jobs)
    /\ trail' = Append(trail, "sort")
    /\ pc' = "write"
    /\ UNCHANGED << today, companies_metadata, csv_rows, existing_urls, src_idx,
                    all_jobs, scraper_stats, filtered_jobs, unique_jobs, written,
                    outcome, scrape_log, probe >>

\* main 442-456 with write_jobs: append to the file when urls were found in
\* it, else write it anew
WriteStage ==
    /\ pc = "write"
    /\ written' = Some(scored_jobs)
    /\ csv_rows' = (IF existing_urls # {} THEN csv_rows ELSE << >>)
                      \o [ i \in DOMAIN scored_jobs |-> format_url(scored_jobs[i].url) ]
    /\ trail' = Append(trail, "write")
    /\ outcome' = "written"
    /\ pc' = "done"
    /\ UNCHANGED << today, companies_metadata, existing_urls, src_idx, all_jobs,
                    scraper_stats, filtered_jobs, unique_jobs, scored_jobs,
                    scrape_log, probe >>

Next ==
    \/ GetExistingUrls
    \/ ScrapeSingle
    \/ ScrapeLocations
    \/ FilterStage
    \/ DedupStage
    \/ ScoreStage
    \/ SortStage
    \/ WriteStage

Spec == Init /\ [][Next]_vars

-----------------------------------------------------------------------------
(* calculate_score on its own: the record drawn from a bounded set *)

ScorerTitles == { << >>, << "Software Engineer" >>, << "Python", "sde" >> }

ScorerDescriptions ==
    { << >>, << "$90k-110k" >>, << "$0k-0k" >>, << "1-3 years" >>,
      << "java", "SQL" >>,
      << "15-25 LPA", "Deadline: Jan 15, 2024" >>,
      << "$90k-110k", "Java", "SQL", "Python" >> }

ScorerCompanies ==
    { "", "Google", "google", "Google India", "google india", "Stripe", "Acme",
      "Initech", "Hooli" }

ScorerPostedDates ==
    { PostedDate("empty", 0), PostedDate("text", 0),
      PostedDate("iso", Today + 5), PostedDate("iso", Today - 1500),
      PostedDate("weeks_ago", 1), PostedDate("months_ago", 1) }
        \cup { PostedDate("days_ago", n) : n \in {0, 1, 2, 3, 4, 7, 8, 14, 15} }

\* the companies metadata files calculate_score is studied under: those of
\* the runs, a file whose keys differ by case only or contain one another,
\* with a tier outside the scored ones and an entry without tier, and a
\* file whose only key contains the company names
ScorerMetadataChoices ==
    MetadataChoices \cup
    { << MetaEntry("google", TRUE, Some("unicorn")),
         MetaEntry("Google", TRUE, Some("FAANG")),
         MetaEntry("Google India", TRUE, Some("well_funded")),
         MetaEntry("Initech", TRUE, Some("startup")),
         MetaEntry("Hooli", TRUE, None) >>,
      << MetaEntry("Google India", TRUE, Some("unicorn")) >> }

ScorerInputs ==
    { Job("dict", t, c, UrlA, d, p, "Otta") :
        t \in ScorerTitles, c \in ScorerCompanies,
        d \in ScorerDescriptions, p \in ScorerPostedDates }

\* the variables of the orchestrator, at rest
PipelineIdle ==
    /\ csv_rows = << >>
    /\ existing_urls = {}
    /\ src_idx = 1
    /\ all_jobs = << >>
    /\ scraper_stats = << >>
    /\ filtered_jobs = << >>
    /\ unique_jobs = << >>
    /\ scored_jobs = << >>
    /\ written = None
    /\ outcome = "running"
    /\ trail = << >>
    /\ scrape_log = << >>

InitScorer ==
    /\ pc = "calculate_score"
    /\ today = Today
    /\ companies_metadata \in ScorerMetadataChoices
    /\ probe \in { [ job |-> j, result |-> None ] : j \in ScorerInputs }
    /\ PipelineIdle

\* one call of calculate_score on the drawn record
CallCalculateScore ==
    /\ pc = "calculate_score"
    /\ IsNone(probe.result)
    /\ probe' = [ probe EXCEPT
                    !.result = Some(calculate_score(probe.job, companies_metadata, today)) ]
    /\ UNCHANGED << pc, today, companies_metadata, csv_rows, existing_urls, src_idx,
                    all_jobs, scraper_stats, filtered_jobs, unique_jobs, scored_jobs,
                    written, outcome, trail, scrape_log >>

NextScorer == CallCalculateScore

SpecScorer == InitScorer /\ [][NextScorer]_vars

-----------------------------------------------------------------------------
(* filter_jobs on its own: the list drawn from a bounded set *)

\* the longest list filter_jobs is given
MaxFilterLen == 3

FilterPool ==
    { Job("dict", << "Software Engineer" >>, "Google", UrlA, << >>,
          PostedDate("empty", 0), "Otta"),
      Job("dict", << "sde 1" >>, "Acme", UrlC, << "Fresher" >>,
          PostedDate("empty", 0), "Otta"),
      Job("dict", << "Senior", "Backend Engineer" >>, "", UrlA, << "5+ Years" >>,
          PostedDate("empty", 0), "Otta"),
      Job("dict", << "Software Engineer", "Intern" >>, "", UrlA, << >>,
          PostedDate("empty", 0), "Otta"),
      Job("dict", << "Software Engineer", "internship" >>, "", UrlA,
          << "Full-Time" >>, PostedDate("empty", 0), "Otta"),
      Job("dict", << "manager" >>, "", UrlA, << "junior" >>,
          PostedDate("empty", 0), "Otta"),
      Job("none", << >>, "", << >>, << >>, PostedDate("empty", 0), "Otta"),
      Job("poison", << "Software Engineer" >>, "", UrlC, << >>,
          PostedDate("empty", 0), "Otta") }

InitFilter ==
    /\ pc = "filter_jobs"
    /\ today = Today
    /\ companies_metadata \in MetadataChoices
    /\ probe \in { [ jobs |-> q, once |-> None, twice |-> None ] :
                      q \in SeqsUpTo(FilterPool, MaxFilterLen) }
    /\ PipelineIdle

\* what a call of filter_jobs does: raise, or return a list
FilterJobsCall(jobs) ==
    IF filter_jobs_raises(jobs) THEN [ raised |-> TRUE, jobs |-> << >> ]
    ELSE [ raised |-> FALSE, jobs |-> filter_jobs(jobs) ]

\* filter_jobs(records)
CallFilterJobs ==
    /\ pc = "filter_jobs"
    /\ IsNone(probe.once)
    /\ probe' = [ probe EXCEPT !.once = Some(FilterJobsCall(probe.jobs)) ]
    /\ UNCHANGED << pc, today, companies_metadata, csv_rows, existing_urls, src_idx,
                    all_jobs, scraper_stats, filtered_jobs, unique_jobs, scored_jobs,
                    written, outcome, trail, scrape_log >>

\* filter_jobs on the list the first call returned
CallFilterJobsAgain ==
    /\ pc = "filter_jobs"
    /\ ~ IsNone(probe.once)
    /\ ~ probe.once[1].raised
    /\ IsNone(probe.twice)
    /\ probe' = [ probe EXCEPT !.twice = Some(FilterJobsCall(probe.once[1].jobs)) ]
    /\ UNCHANGED << pc, today, companies_metadata, csv_rows, existing_urls, src_idx,
                    all_jobs, scraper_stats, filtered_jobs, unique_jobs, scored_jobs,
                    written, outcome, trail, scrape_log >>

NextFilter == CallFilterJobs \/ CallFilterJobsAgain

SpecFilter == InitFilter /\ [][NextFilter]_vars

-----------------------------------------------------------------------------
(* matches_role, is_experience_eligible and filter_job on one record *)

JobFilterTitles ==
    { << >>, << "Software Engineer" >>, << "Senior", "Backend Engineer" >>,
      << "Software Engineer", "Intern" >>, << "Software Engineer", "Fresher" >>,
      << "international", "Backend Engineer" >>, << "manager" >> }

JobFilterDescriptions ==
    { << >>, << "5+ Years" >>, << "10+ years" >>, << "Full-Time" >>,
      << "permanent" >>, << "junior" >>, << "junior", "lead" >>,
      << "Senior", "Fresher" >>, << "internship", "Full-Time" >>,
      << "software engineer" >> }

JobFilterInputs ==
    { Job("dict", t, "", UrlA, d, PostedDate("empty", 0), "Otta") :
        t \in JobFilterTitles, d \in JobFilterDescriptions }
      \cup { Job("none", << >>, "", << >>, << >>, PostedDate("empty", 0), "Otta"),
             Job("empty", << >>, "", << >>, << >>, PostedDate("empty", 0), "Otta") }

InitJobFilter ==
    /\ pc = "job_filter"
    /\ today = Today
    /\ companies_metadata \in MetadataChoices
    /\ probe \in { [ job |-> j, role |-> None, eligible |-> None, passed |-> None ] :
                      j \in JobFilterInputs }
    /\ PipelineIdle

\* matches_role(title, description) on the fields of the drawn record
CallMatchesRole ==
    /\ pc = "job_filter"
    /\ IsNone(probe.role)
    /\ probe' = [ probe EXCEPT
                    !.role = Some(matches_role(probe.job.title, probe.job.description)) ]
    /\ UNCHANGED << pc, today, companies_metadata, csv_rows, existing_urls, src_idx,
                    all_jobs, scraper_stats, filtered_jobs, unique_jobs, scored_jobs,
                    written, outcome, trail, scrape_log >>

\* is_experience_eligible(title, description) on the fields of the drawn record
CallIsExperienceEligible ==
    /\ pc = "job_filter"
    /\ IsNone(probe.eligible)
    /\ probe' = [ probe EXCEPT
                    !.eligible = Some(is_experience_eligible(probe.job.title,
                                                             probe.job.description)) ]
    /\ UNCHANGED << pc, today, companies_metadata, csv_rows, existing_urls, src_idx,
                    all_jobs, scraper_stats, filtered_jobs, unique_jobs, scored_jobs,
                    written, outcome, trail, scrape_log >>

\* filter_job(record) on the drawn record
CallFilterJob ==
    /\ pc = "job_filter"
    /\ IsNone(probe.passed)
    /\ ~ filter_job_raises(probe.job)
    /\ probe' = [ probe EXCEPT !.passed = Some(filter_job(probe.job)) ]
    /\ UNCHANGED << pc, today, companies_metadata, csv_rows, existing_urls, src_idx,
                    all_jobs, scraper_stats, filtered_jobs, unique_jobs, scored_jobs,
                    written, outcome, trail, scrape_log >>

NextJobFilter == CallMatchesRole \/ CallIsExperienceEligible \/ CallFilterJob

SpecJobFilter == InitJobFilter /\ [][NextJobFilter]_vars

-----------------------------------------------------------------------------
(* _get_freshness_indicator on two values of days_since_posted *)

\* the largest number of days _get_freshness_indicator is given
MaxFreshnessDays == 16

\* the values days_since_posted takes: null, or a number of days
FreshnessInputs == { None } \cup { Some(d) : d \in 0..MaxFreshnessDays }

InitFreshness ==
    /\ pc = "get_freshness_indicator"
    /\ today = Today
    /\ companies_metadata \in MetadataChoices
    /\ probe \in { [ d1 |-> a, d2 |-> b, f1 |-> None, f2 |-> None ] :
                      a \in FreshnessInputs, b \in FreshnessInputs }
    /\ PipelineIdle

\* _get_freshness_indicator(d1)
CallFreshnessFirst ==
    /\ pc = "get_freshness_indicator"
    /\ IsNone(probe.f1)
    /\ probe' = [ probe EXCEPT !.f1 = Some(get_freshness_indicator(probe.d1)) ]
    /\ UNCHANGED << pc, today, companies_metadata, csv_rows, existing_urls, src_idx,
                    all_jobs, scraper_stats, filtered_jobs, unique_jobs, scored_jobs,
                    written, outcome, trail, scrape_log >>

\* _get_freshness_indicator(d2)
CallFreshnessSecond ==
    /\ pc = "get_freshness_indicator"
    /\ IsNone(probe.f2)
    /\ probe' = [ probe EXCEPT !.f2 = Some(get_freshness_indicator(probe.d2)) ]
    /\ UNCHANGED << pc, today, companies_metadata, csv_rows, existing_urls, src_idx,
                    all_jobs, scraper_stats, filtered_jobs, unique_jobs, scored_jobs,
                    written, outcome, trail, scrape_log >>

NextFreshness == CallFreshnessFirst \/ CallFreshnessSecond

SpecFreshness == InitFreshness /\ [][NextFreshness]_vars

-----------------------------------------------------------------------------
(* SalaryExtractor.extract on its own: the text drawn from a bounded set *)

\* the most phrases a text holds
MaxSalaryPhrases == 2

SalaryPhrases ==
    { "Package:", "Salary:", "no numbers here", "15-25 LPA", "12 lpa",
      "1500000-2500000 LPA", "$90k-110k", "$80,000-$120,000", "$0k-0k",
      "1-3 years" }

InitSalary ==
    /\ pc = "extract"
    /\ today = Today
    /\ companies_metadata \in MetadataChoices
    /\ probe \in { [ text |-> t, result |-> None ] :
                      t \in SeqsUpTo(SalaryPhrases, MaxSalaryPhrases) }
    /\ PipelineIdle

\* SalaryExtractor.extract(text)
CallSalaryExtract ==
    /\ pc = "extract"
    /\ IsNone(probe.result)
    /\ probe' = [ probe EXCEPT !.result = Some(SalaryExtract(probe.text)) ]
    /\ UNCHANGED << pc, today, companies_metadata, csv_rows, existing_urls, src_idx,
                    all_jobs, scraper_stats, filtered_jobs, unique_jobs, scored_jobs,
                    written, outcome, trail, scrape_log >>

NextSalary == CallSalaryExtract

SpecSalary == InitSalary /\ [][NextSalary]_vars

-----------------------------------------------------------------------------
(* filter_job and calculate_score called twice on one record, the clock
   moving on between the calls *)

\* the most days that pass between the first call and the last
MaxClockAdvance == 2

PurityInputs ==
    { Job("dict", t, c, UrlA, d, p, "Otta") :
        t \in { << "Software Engineer" >>, << "manager" >> },
        c \in { "Google", "Acme" },
        d \in { << "Python" >>, << "$90k-110k", "Deadline: Jan 15, 2024" >> },
        p \in { PostedDate("empty", 0), PostedDate("days_ago", 2),
                PostedDate("iso", Today - 2) } }

InitPurity ==
    /\ pc = "purity"
    /\ today = Today
    /\ companies_metadata \in MetadataChoices
    /\ probe \in { [ job |-> j, score1 |-> None, score2 |-> None,
                     day1 |-> None, day2 |-> None,
                     pass1 |-> None, pass2 |-> None ] : j \in PurityInputs }
    /\ PipelineIdle

\* a day passes
ClockTick ==
    /\ pc = "purity"
    /\ today < Today + MaxClockAdvance
    /\ today' = today + 1
    /\ UNCHANGED << pc, companies_metadata, csv_rows, existing_urls, src_idx,
                    all_jobs, scraper_stats, filtered_jobs, unique_jobs, scored_jobs,
                    written, outcome, trail, scrape_log, probe >>

\* calculate_score(record), the first time
CallScoreFirst ==
    /\ pc = "purity"
    /\ IsNone(probe.score1)
    /\ probe' = [ probe EXCEPT
                    !.score1 = Some(calculate_score(probe.job, companies_metadata, today)),
                    !.day1 = Some(today) ]
    /\ UNCHANGED << pc, today, companies_metadata, csv_rows, existing_urls, src_idx,
                    all_jobs, scraper_stats, filtered_jobs, unique_jobs, scored_jobs,
                    written, outcome, trail, scrape_log >>

\* calculate_score(record), a second time
CallScoreSecond ==
    /\ pc = "purity"
    /\ ~ IsNone(probe.score1)
    /\ IsNone(probe.score2)
    /\ probe' = [ probe EXCEPT
                    !.score2 = Some(calculate_score(probe.job, companies_metadata, today)),
                    !.day2 = Some(today) ]
    /\ UNCHANGED << pc, today, companies_metadata, csv_rows, existing_urls, src_idx,
                    all_jobs, scraper_stats, filtered_jobs, unique_jobs, scored_jobs,
                    written, outcome, trail, scrape_log >>

\* filter_job(record), the first time
CallFilterFirst ==
    /\ pc = "purity"
    /\ IsNone(probe.pass1)
    /\ probe' = [ probe EXCEPT !.pass1 = Some(filter_job(probe.job)) ]
    /\ UNCHANGED << pc, today, companies_metadata, csv_rows, existing_urls, src_idx,
                    all_jobs, scraper_stats, filtered_jobs, unique_jobs, scored_jobs,
                    written, outcome, trail, scrape_log >>

\* filter_job(record), a second time
CallFilterSecond ==
    /\ pc = "purity"
    /\ ~ IsNone(probe.pass1)
    /\ IsNone(probe.pass2)
    /\ probe' = [ probe EXCEPT !.pass2 = Some(filter_job(probe.job)) ]
    /\ UNCHANGED << pc, today, companies_metadata, csv_rows, existing_urls, src_idx,
                    all_jobs, scraper_stats, filtered_jobs, unique_jobs, scored_jobs,
                    written, outcome, trail, scrape_log >>

NextPurity ==
    \/ ClockTick
    \/ CallScoreFirst
    \/ CallScoreSecond
    \/ CallFilterFirst
    \/ CallFilterSecond

SpecPurity == InitPurity /\ [][NextPurity]_vars

-----------------------------------------------------------------------------
(* ApplicationManager.get_jobs_to_apply on the rows read from the CSV *)

\* the most rows the CSV holds
MaxCsvJobs == 2

\* the flag words that change under str.lower(), with their lower-case form
FlagLowerTable == << << "Yes", "yes" >>, << "TRUE", "true" >>, << "Y", "y" >> >>

\* str.lower() of a flag word
FlagLower(s) ==
    IF \E i \in DOMAIN FlagLowerTable : FlagLowerTable[i][1] = s
    THEN FlagLowerTable[CHOOSE i \in DOMAIN FlagLowerTable : FlagLowerTable[i][1] = s][2]
    ELSE s

\* cell.strip().lower()
strip_lower(cell) == LET s == Strip(cell) IN [ i \in DOMAIN s |-> FlagLower(s[i]) ]

\* a priority_score cell: empty, the text of a number, or other text
ScoreCell(form, value) == [ form |-> form, value |-> value ]

\* a row as read_jobs returns it
CsvJob(url, ready_to_apply, applied, priority_score) ==
    [ url |-> url, ready_to_apply |-> ready_to_apply, applied |-> applied,
      priority_score |-> priority_score ]

\* float(cell) raises ValueError
float_raises(cell) == cell.form = "text"

\* float(cell or 0)
float_or_zero(cell) == IF cell.form = "number" THEN cell.value ELSE 0

\* a test that would compare the cell as it is
already_applied_as_given(job) ==
    job.applied \in { << "yes" >>, << "true" >>, << "1" >> }

\* applied in ['yes', 'true', '1']
already_applied(job) ==
    strip_lower(job.applied) \in { << "yes" >>, << "true" >>, << "1" >> }

\* ready_to_apply in ['yes', 'true', '1', 'y']
is_ready_to_apply(job) ==
    strip_lower(job.ready_to_apply) \in { << "yes" >>, << "true" >>, << "1" >>, << "y" >> }

\* the priority test of lines 88-95: the row is passed over
below_threshold(job, cfg) ==
    /\ cfg.APPLY_ONLY_HIGH_PRIORITY
    /\ ~ float_raises(job.priority_score)
    /\ float_or_zero(job.priority_score) < cfg.PRIORITY_THRESHOLD

RECURSIVE ReadyFrom(_, _, _)
\* the selection loop from row i on
ReadyFrom(jobs, i, cfg) ==
    IF i > Len(jobs) THEN << >>
    ELSE IF already_applied(jobs[i]) THEN ReadyFrom(jobs, i + 1, cfg)
    ELSE IF is_ready_to_apply(jobs[i]) /\ ~ below_threshold(jobs[i], cfg)
    THEN << jobs[i] >> \o ReadyFrom(jobs, i + 1, cfg)
    ELSE ReadyFrom(jobs, i + 1, cfg)

RECURSIVE InsertDescending(_, _)
\* x inserted after every element whose score is not lower
InsertDescending(sorted, x) ==
    IF sorted = << >> THEN << x >>
    ELSE IF float_or_zero(x.priority_score) > float_or_zero(Head(sorted).priority_score)
    THEN << x >> \o sorted
    ELSE << Head(sorted) >> \o InsertDescending(Tail(sorted), x)

RECURSIVE SortDescendingFrom(_, _, _)
SortDescendingFrom(jobs, i, sorted) ==
    IF i > Len(jobs) THEN sorted
    ELSE SortDescendingFrom(jobs, i + 1, InsertDescending(sorted, jobs[i]))

\* ready_jobs.sort(key=..., reverse=True): stable, highest score first
sort_by_priority(jobs) == SortDescendingFrom(jobs, 1, << >>)

\* ready_jobs[:MAX_APPLICATIONS_PER_RUN] when the limit is positive
limit_jobs(jobs, cfg) ==
    IF cfg.MAX_APPLICATIONS_PER_RUN > 0 /\ Len(jobs) > cfg.MAX_APPLICATIONS_PER_RUN
    THEN SubSeq(jobs, 1, cfg.MAX_APPLICATIONS_PER_RUN)
    ELSE jobs

\* get_jobs_to_apply: the sort key raises on a selected row whose
\* priority_score is no number
get_jobs_to_apply(jobs, cfg) ==
    LET ready_jobs == ReadyFrom(jobs, 1, cfg)
    IN  IF \E i \in DOMAIN ready_jobs : float_raises(ready_jobs[i].priority_score)
        THEN [ raised |-> TRUE, jobs |-> << >> ]
        ELSE [ raised |-> FALSE, jobs |-> limit_jobs(sort_by_priority(ready_jobs), cfg) ]

\* the settings get_jobs_to_apply imports
ApplyConfigs ==
    [ MAX_APPLICATIONS_PER_RUN : { 0, 1, 2 },
      APPLY_ONLY_HIGH_PRIORITY : BOOLEAN,
      PRIORITY_THRESHOLD : { 50 } ]

\* the rows the CSV may hold
CsvJobPool ==
    { CsvJob(u, r, a, p) :
        u \in { UrlA },
        r \in { << " ", "Yes", " " >>, << "Y" >>, << "no" >> },
        a \in { << >>, << "TRUE", " " >>, << "No" >> },
        p \in { ScoreCell("empty", 0), ScoreCell("number", 80),
                ScoreCell("number", 30), ScoreCell("text", 0) } }

InitApply ==
    /\ pc = "get_jobs_to_apply"
    /\ today = Today
    /\ companies_metadata = << >>
    /\ probe \in { [ jobs |-> js, cfg |-> c, result |-> None ] :
                     js \in SeqsUpTo(CsvJobPool, MaxCsvJobs), c \in ApplyConfigs }
    /\ PipelineIdle

CallGetJobsToApply ==
    /\ pc = "get_jobs_to_apply"
    /\ IsNone(probe.result)
    /\ probe' = [ probe EXCEPT !.result = Some(get_jobs_to_apply(probe.jobs, probe.cfg)) ]
    /\ UNCHANGED << pc, today, companies_metadata, csv_rows, existing_urls, src_idx,
                    all_jobs, scraper_stats, filtered_jobs, unique_jobs, scored_jobs,
                    written, outcome, trail, scrape_log >>

NextApply == CallGetJobsToApply

SpecApply == InitApply /\ [][NextApply]_vars

-----------------------------------------------------------------------------
(* BaseScraper._make_request: one call, attempt by attempt *)

\* utils.config
MAX_RETRIES == 3

\* what session.request does in one attempt: it returns a response with a
\* status, or raises HTTPError (with a response, or none), another
\* RequestException, or some other Exception
Outcome(kind, status) == [ kind |-> kind, status |-> status ]

RequestOutcomes ==
    { Outcome("response", Some(s)) : s \in { 200, 401, 403, 404, 429, 500 } }
      \cup { Outcome("http_error", st) : st \in { None, Some(401), Some(404), Some(500) } }
      \cup { Outcome("request_exception", None), Outcome("exception", None) }

\* response.status_code in (401, 403, 404)
non_retriable_response(status) == status \in { 401, 403, 404 }

\* a test of the error's status that would know 404 alone
non_retriable_error_404_only(status) == status = Some(404)

\* status in (401, 403, 404), status being None without a response
non_retriable_error(status) == status \in { Some(401), Some(403), Some(404) }

\* response.raise_for_status() raises HTTPError
raise_for_status_raises(status) == status >= 400

\* attempt < MAX_RETRIES - 1
retry_left(attempt) == attempt < MAX_RETRIES - 1

\* the body of the loop for one attempt: "response" and "none" return,
\* "retry" sleeps and goes on to the next attempt
after_attempt(attempt, o) ==
    IF o.kind = "response" /\ non_retriable_response(o.status[1]) THEN "none"
    ELSE IF o.kind = "response" /\ ~ raise_for_status_raises(o.status[1]) THEN "response"
    ELSE IF o.kind \in { "response", "http_error" } /\ non_retriable_error(o.status) THEN "none"
    ELSE IF retry_left(attempt) THEN "retry"
    ELSE "none"

InitRequest ==
    /\ pc = "make_request"
    /\ today = Today
    /\ companies_metadata = << >>
    /\ probe = [ attempt |-> 0, at |-> "request", log |-> << >>, result |-> "pending",
                 slept |-> << >> ]
    /\ PipelineIdle

\* lines 98-144: rate limit, session.request and the handling of its outcome
SendRequest ==
    /\ pc = "make_request"
    /\ probe.at = "request"
    /\ \E o \in RequestOutcomes :
          LET d == after_attempt(probe.attempt, o)
          IN  probe' = [ probe EXCEPT
                           !.log = Append(@, o),
                           !.at = IF d = "retry" THEN "backoff" ELSE "returned",
                           !.result = IF d = "retry" THEN "pending" ELSE d ]
    /\ UNCHANGED << pc, today, companies_metadata, csv_rows, existing_urls, src_idx,
                    all_jobs, scraper_stats, filtered_jobs, unique_jobs, scored_jobs,
                    written, outcome, trail, scrape_log >>

\* lines 133-134, 141-142: the sleep of 2 ** attempt seconds and more, then
\* the next attempt of range(MAX_RETRIES); line 146 when there is none
Backoff ==
    /\ pc = "make_request"
    /\ probe.at = "backoff"
    /\ probe' = [ probe EXCEPT
                    !.slept = Append(@, 2 ^ probe.attempt),
                    !.attempt = @ + 1,
                    !.at = IF probe.attempt + 1 < MAX_RETRIES THEN "request" ELSE "returned",
                    !.result = IF probe.attempt + 1 < MAX_RETRIES THEN "pending" ELSE "none" ]
    /\ UNCHANGED << pc, today, companies_metadata, csv_rows, existing_urls, src_idx,
                    all_jobs, scraper_stats, filtered_jobs, unique_jobs, scored_jobs,
                    written, outcome, trail, scrape_log >>

NextRequest ==
    \/ SendRequest
    \/ Backoff

\* session.request returns or raises within TIMEOUT and time.sleep returns
SpecRequest == InitRequest /\ [][NextRequest]_vars /\ WF_vars(NextRequest)

-----------------------------------------------------------------------------
(* Run after run of main() on one output CSV *)

\* the most runs in a row
MaxRuns == 2

\* the most records the sources of one run produce together
MaxRunJobs == 2

\* records the sources may produce, all of them passing the filter but the last
RunPool ==
    { Job("dict", << "Software Engineer" >>, "Google", UrlA,
          << "Fresher" >>, PostedDate("days_ago", 1), "LinkedIn"),
      Job("dict", << "Backend Engineer" >>, "google", << "e.com" >>,
          << "Fresher" >>, PostedDate("days_ago", 2), "Otta"),
      Job("dict", << "Software Engineer" >>, "Initech", << " ", "https://", "a.com" >>,
          << "Fresher" >>, PostedDate("empty", 0), "Otta"),
      Job("dict", << "Senior Backend Engineer" >>, "Stripe", UrlC,
          << "5+ Years" >>, PostedDate("days_ago", 1), "LinkedIn") }

InitRuns ==
    /\ pc = "start"
    /\ today = Today
    /\ companies_metadata \in MetadataChoices
    /\ csv_rows = << >>
    /\ probe = << >>
    /\ existing_urls = {}
    /\ src_idx = 1
    /\ all_jobs = << >>
    /\ scraper_stats = << >>
    /\ filtered_jobs = << >>
    /\ unique_jobs = << >>
    /\ scored_jobs = << >>
    /\ written = None
    /\ outcome = "running"
    /\ trail = << >>
    /\ scrape_log = << >>

\* main 129-325: the sources of the run, taken together, produce a list
ScrapeAll ==
    /\ pc = "scrape"
    /\ all_jobs' \in SeqsUpTo(RunPool, MaxRunJobs)
    /\ trail' = Append(trail, "merge")
    /\ pc' = "filter"
    /\ UNCHANGED << today, companies_metadata, csv_rows, existing_urls, src_idx,
                    scraper_stats, filtered_jobs, unique_jobs, scored_jobs, written,
                    outcome, scrape_log, probe >>

\* the process ends and, unless MaxRuns runs were made, main() is started
\* again on the CSV the run left; probe keeps what each run found persisted
\* and which urls it admitted and wrote
EndRun ==
    /\ pc = "done"
    /\ probe' = Append(probe,
                   [ existing |-> existing_urls,
                     wrote |-> ~ IsNone(written),
                     admitted |-> IF IsNone(written) THEN << >>
                                  ELSE [ i \in DOMAIN written[1] |-> dedup_key(written[1][i]) ] ])
    /\ pc' = IF Len(probe') < MaxRuns THEN "start" ELSE "stopped"
    /\ existing_urls' = {}
    /\ all_jobs' = << >>
    /\ filtered_jobs' = << >>
    /\ unique_jobs' = << >>
    /\ scored_jobs' = << >>
    /\ written' = None
    /\ outcome' = "running"
    /\ trail' = << >>
    /\ UNCHANGED << today, companies_metadata, csv_rows, src_idx, scraper_stats,
                    scrape_log >>

NextRuns ==
    \/ GetExistingUrls
    \/ ScrapeAll
    \/ FilterStage
    \/ DedupStage
    \/ ScoreStage
    \/ SortStage
    \/ WriteStage
    \/ EndRun

SpecRuns == InitRuns /\ [][NextRuns]_vars

-----------------------------------------------------------------------------
(* ApplicationManager.process_applications: one call, job by job *)

\* the most jobs get_jobs_to_apply hands to one call
MaxApplyJobs == 3

\* __init__ 57-64
InitialStats ==
    [ total_processed |-> 0, successful |-> 0, failed |-> 0, skipped |-> 0,
      needs_manual |-> 0 ]

\* an application result, by the two fields the statistics read
ApplyResult(success, error_category) ==
    [ success |-> success, error_category |-> error_category ]

\* the results an applier, or the lack of one, gives
ApplyResults ==
    { ApplyResult(TRUE, ""),
      ApplyResult(FALSE, "Unsupported Source"),
      ApplyResult(FALSE, "Needs Manual Check"),
      ApplyResult(FALSE, "Network Error") }

\* apply_to_job 166-175: the statistics after a result
stats_after_result(stats, result) ==
    LET counted == [ stats EXCEPT !.total_processed = @ + 1 ]
    IN  IF result.success THEN [ counted EXCEPT !.successful = @ + 1 ]
        ELSE IF result.error_category = "Unsupported Source"
        THEN [ counted EXCEPT !.skipped = @ + 1 ]
        ELSE IF result.error_category = "Needs Manual Check"
        THEN [ counted EXCEPT !.needs_manual = @ + 1 ]
        ELSE [ counted EXCEPT !.failed = @ + 1 ]

\* process_applications 285-287: the statistics after apply_to_job raised
stats_after_raise(stats) == [ stats EXCEPT !.failed = @ + 1 ]

InitProcess ==
    /\ pc = "process_applications"
    /\ today = Today
    /\ companies_metadata = << >>
    /\ probe \in { [ AUTO_APPLY_ENABLED |-> e, jobs |-> n, at |-> "start", attempts |-> << >>,
                     stats |-> InitialStats, returned |-> None ] :
                     e \in BOOLEAN, n \in 0 .. MaxApplyJobs }
    /\ PipelineIdle

\* lines 249-279: the call returns at once when auto-apply is disabled, the
\* profile does not load, or no job is ready
StartProcessing ==
    /\ pc = "process_applications"
    /\ probe.at = "start"
    /\ \E profile_ok \in BOOLEAN :
          IF ~ probe.AUTO_APPLY_ENABLED \/ ~ profile_ok
          THEN probe' = [ probe EXCEPT !.at = "returned", !.returned = Some(FALSE) ]
          ELSE IF probe.jobs = 0
          THEN probe' = [ probe EXCEPT !.at = "returned", !.returned = Some(TRUE) ]
          ELSE probe' = [ probe EXCEPT !.at = "loop" ]
    /\ UNCHANGED << pc, today, companies_metadata, csv_rows, existing_urls, src_idx,
                    all_jobs, scraper_stats, filtered_jobs, unique_jobs, scored_jobs,
                    written, outcome, trail, scrape_log >>

\* lines 282-284 with apply_to_job 130-177: the next job, apply_to_job returning
ApplyToJob ==
    /\ pc = "process_applications"
    /\ probe.at = "loop"
    /\ Len(probe.attempts) < probe.jobs
    /\ \E result \in ApplyResults :
          probe' = [ probe EXCEPT !.attempts = Append(@, "returned"),
                                  !.stats = stats_after_result(@, result) ]
    /\ UNCHANGED << pc, today, companies_metadata, csv_rows, existing_urls, src_idx,
                    all_jobs, scraper_stats, filtered_jobs, unique_jobs, scored_jobs,
                    written, outcome, trail, scrape_log >>

\* lines 282-287: the next job, apply_to_job raising in find_applier or in
\* the applier, before it reaches its statistics
ApplyToJobRaises ==
    /\ pc = "process_applications"
    /\ probe.at = "loop"
    /\ Len(probe.attempts) < probe.jobs
    /\ probe' = [ probe EXCEPT !.attempts = Append(@, "raised"),
                               !.stats = stats_after_raise(@) ]
    /\ UNCHANGED << pc, today, companies_metadata, csv_rows, existing_urls, src_idx,
                    all_jobs, scraper_stats, filtered_jobs, unique_jobs, scored_jobs,
                    written, outcome, trail, scrape_log >>

\* lines 289-297: the report and the return
GenerateReport ==
    /\ pc = "process_applications"
    /\ probe.at = "loop"
    /\ Len(probe.attempts) = probe.jobs
    /\ probe' = [ probe EXCEPT !.at = "returned", !.returned = Some(TRUE) ]
    /\ UNCHANGED << pc, today, companies_metadata, csv_rows, existing_urls, src_idx,
                    all_jobs, scraper_stats, filtered_jobs, unique_jobs, scored_jobs,
                    written, outcome, trail, scrape_log >>

NextProcess ==
    \/ StartProcessing
    \/ ApplyToJob
    \/ ApplyToJobRaises
    \/ GenerateReport

SpecProcess == InitProcess /\ [][NextProcess]_vars

-----------------------------------------------------------------------------
(* Properties *)

\* the stage has run to completion
StageDone(stage) == \E i \in DOMAIN trail : trail[i] = stage

\* the positions of the list whose trimmed url is u
Positions(jobs, u) == { i \in DOMAIN jobs : Strip(jobs[i].url) = u }

\* the least element of a non-empty set of numbers
Least(S) == CHOOSE i \in S : \A j \in S : i <= j

\* the trimmed urls of the filtered records that are neither empty nor persisted
AdmissibleUrls ==
    { Strip(filtered_jobs[i].url) : i \in DOMAIN filtered_jobs }
        \ ({ << >> } \cup existing_urls)

\* C1: after the dedup step, every distinct non-empty trimmed url of the
\* filtered records that is not persisted has exactly one survivor, the
\* survivor is the first record of the filtered list with that url, no other
\* record survives, and the survivors keep the order of their first occurrence
C1_DedupKeepsFirstOccurrence ==
    StageDone("dedup") =>
        /\ \A u \in AdmissibleUrls :
              /\ Cardinality(Positions(unique_jobs, u)) = 1
              /\ unique_jobs[Least(Positions(unique_jobs, u))]
                    = filtered_jobs[Least(Positions(filtered_jobs, u))]
        /\ \A k \in DOMAIN unique_jobs : Strip(unique_jobs[k].url) \in AdmissibleUrls
        /\ \A k, l \in DOMAIN unique_jobs :
              k < l => Least(Positions(filtered_jobs, Strip(unique_jobs[k].url)))
                         < Least(Positions(filtered_jobs, Strip(unique_jobs[l].url)))

\* C1 witness: two different filtered records from different sources share a
\* trimmed url that is not persisted, and the dedup step has run
C1_Witness ==
    /\ StageDone("dedup")
    /\ \E i, j \in DOMAIN filtered_jobs :
          /\ i < j
          /\ filtered_jobs[i].url # filtered_jobs[j].url
          /\ filtered_jobs[i].source # filtered_jobs[j].source
          /\ Strip(filtered_jobs[i].url) = Strip(filtered_jobs[j].url)
          /\ Strip(filtered_jobs[i].url) \in AdmissibleUrls

\* C2: no record whose trimmed url is in the set get_existing_urls returned
\* at the start of the run is among the records kept by the dedup step, the
\* records scored, or the records handed to the persistence collaborator
C2_PersistedUrlsNeverReadmitted ==
    /\ \A i \in DOMAIN unique_jobs : Strip(unique_jobs[i].url) \notin existing_urls
    /\ \A i \in DOMAIN scored_jobs : Strip(scored_jobs[i].url) \notin existing_urls
    /\ ~ IsNone(written) =>
          \A i \in DOMAIN written[1] : Strip(written[1][i].url) \notin existing_urls

\* C2 witness: a run that wrote records although one of its filtered records
\* had a url that was already persisted
C2_Witness ==
    /\ outcome = "written"
    /\ \E i \in DOMAIN filtered_jobs : Strip(filtered_jobs[i].url) \in existing_urls

\* the computed fields of a scored record
Computed(job) == job.computed[1]

\* calculate_score returned for every record of the list
AllScored(jobs) ==
    \A i \in DOMAIN jobs : ~ calculate_score(jobs[i], companies_metadata, today).raised

\* C4: the list handed to persistence is ordered by priority_score
\* descending and, at equal score, by days_since_posted ascending, a record
\* with no days_since_posted coming after every record of the same score
\* that has one (stated for the runs in which calculate_score returned for
\* every record, so that a missing days_since_posted is a posted_date that
\* did not parse)
C4_SortedMissingLast ==
    (~ IsNone(written) /\ AllScored(unique_jobs)) =>
        \A i, j \in DOMAIN written[1] :
            i < j =>
                LET a == Computed(written[1][i])
                    b == Computed(written[1][j])
                IN  \/ a.priority_score > b.priority_score
                    \/ /\ a.priority_score = b.priority_score
                       /\ ~ (IsNone(a.days_since_posted) /\ ~ IsNone(b.days_since_posted))
                       /\ (~ IsNone(a.days_since_posted) /\ ~ IsNone(b.days_since_posted))
                            => a.days_since_posted[1] <= b.days_since_posted[1]

\* the returned dictionary of the call of calculate_score under study
ScoreData == probe.result[1].score_data[1]

\* the call of calculate_score under study has returned
ScoreReturned == ~ IsNone(probe.result) /\ ~ probe.result[1].raised

\* C3: a returned score lies in 0..100 and is min(100, recency + company +
\* salary + skills), with recency in {0,10,20,30,40}, company in
\* {0,15,25,30}, salary in {0,20} and skills in 0..10
C3_ScoreBounds ==
    ScoreReturned =>
        LET b == ScoreData.breakdown
            sum == b.recency + b.company + b.salary + b.skills
        IN  /\ ScoreData.score >= 0
            /\ ScoreData.score <= 100
            /\ ScoreData.score = IF sum < 100 THEN sum ELSE 100
            /\ b.recency \in {0, 10, 20, 30, 40}
            /\ b.company \in {0, 15, 25, 30}
            /\ b.salary \in {0, 20}
            /\ b.skills \in 0..10

\* C3 witness: a returned score of 100 with every component at its maximum
C3_Witness ==
    /\ ScoreReturned
    /\ ScoreData.score = 100
    /\ ScoreData.breakdown = [ recency |-> 40, company |-> 30, salary |-> 20, skills |-> 10 ]

\* the sum of the lengths of the lists the calls of the log returned, over
\* the calls of one source
RECURSIVE ReturnedBy(_, _)
ReturnedBy(log, source) ==
    IF log = << >> THEN 0
    ELSE (IF Head(log).source = source /\ ~ Head(log).raised
          THEN Len(Head(log).jobs) ELSE 0) + ReturnedBy(Tail(log), source)

\* the source is scraped by one call, not once per search location
SingleCall(source) ==
    \E k \in DOMAIN Sources : Sources[k].name = source /\ ~ Sources[k].per_location

\* the scrape calls a run makes, by source, in invocation order
ExpectedCalls ==
    << "Company Career Pages", "LinkedIn", "LinkedIn", "Otta" >>

PoisonScraped == \E i \in DOMAIN all_jobs : filter_job_raises(all_jobs[i])

\* C6 as stated: a record on which filtering raises is dropped and the run
\* goes on, the remaining records being filtered
C6_FilterFailureSkipsRecord ==
    (pc = "done" /\ PoisonScraped) =>
        /\ outcome # "filter_failed"
        /\ StageDone("filter")

\* C6 amended: a filtering exception raised for one record ends the run:
\* filter_jobs lets it through, the orchestrator catches it and returns, so
\* no record is filtered, deduplicated, scored or persisted
C6_FilterFailureEndsRun ==
    (pc = "done" /\ PoisonScraped) =>
        /\ outcome = "filter_failed"
        /\ trail = << "merge" >>
        /\ filtered_jobs = << >>
        /\ unique_jobs = << >>
        /\ scored_jobs = << >>
        /\ IsNone(written)

\* C6 witness: a finished run whose working set held a record on which
\* filtering raises next to a record that passes the filter
C6_Witness ==
    /\ pc = "done"
    /\ PoisonScraped
    /\ \E i \in DOMAIN all_jobs :
          ~ filter_job_raises(all_jobs[i]) /\ filter_job(all_jobs[i])

\* C7: calculate_score never raises
C7_ScoreNeverRaises ==
    ~ IsNone(probe.result) => ~ probe.result[1].raised

\* p is a prefix of q
IsPrefix(p, q) == Len(p) <= Len(q) /\ SubSeq(q, 1, Len(p)) = p

\* C8: the stages complete in the order merge, filter, dedup, score, sort,
\* write, a stage having produced nothing before the one before it is
\* complete; and every record handed to persistence is a dict that passes
\* filter_job, has a non-empty trimmed url that was not in the persisted set
\* read at the start of the run, and carries the computed score fields
C8_StagesInOrder ==
    /\ IsPrefix(trail, Stages)
    /\ ~ StageDone("merge") => pc \in {"start", "scrape"}
    /\ ~ StageDone("filter") => filtered_jobs = << >>
    /\ ~ StageDone("dedup") => unique_jobs = << >>
    /\ ~ StageDone("score") => scored_jobs = << >>
    /\ ~ StageDone("write") => IsNone(written)
    /\ StageDone("filter") => filtered_jobs = FilterJobsCall(all_jobs).jobs
    /\ StageDone("score") => Len(scored_jobs) = Len(unique_jobs)
    /\ ~ IsNone(written) =>
          /\ trail = Stages
          /\ Len(written[1]) = Len(unique_jobs)
          /\ \A i \in DOMAIN written[1] :
                LET job == written[1][i]
                IN  /\ job.kind = "dict"
                    /\ filter_job(job)
                    /\ Strip(job.url) # << >>
                    /\ Strip(job.url) \notin existing_urls
                    /\ ~ IsNone(job.computed)
                    /\ \E k \in DOMAIN unique_jobs :
                          job = score_job(unique_jobs[k], companies_metadata, today)

\* C8 witness: a run that wrote records after the filter had rejected a
\* record and the dedup step had dropped another
C8_Witness ==
    /\ ~ IsNone(written)
    /\ Len(filtered_jobs) < Len(all_jobs)
    /\ Len(unique_jobs) < Len(filtered_jobs)

\* the positions of the list whose record passes filter_job
Passing(jobs) == { i \in DOMAIN jobs : filter_job(jobs[i]) }

\* the k-th least element of a set of numbers
Kth(S, k) == CHOOSE i \in S : Cardinality({ j \in S : j <= i }) = k

\* C9: filtering the list filter_jobs returned returns that list again
C9_FilterIdempotent ==
    ~ IsNone(probe.twice) =>
        /\ ~ probe.twice[1].raised
        /\ probe.twice[1].jobs = probe.once[1].jobs

\* C9 witness: a second filtering of a list from which the first filtering
\* had dropped a record and kept two
C9_Witness ==
    /\ ~ IsNone(probe.twice)
    /\ Len(probe.once[1].jobs) >= 2
    /\ Len(probe.once[1].jobs) < Len(probe.jobs)

\* C10: the list filter_jobs returns holds exactly the input records that
\* pass filter_job, each once, unchanged and in their input order
C10_FilterIsSubsequence ==
    (~ IsNone(probe.once) /\ ~ probe.once[1].raised) =>
        LET out == probe.once[1].jobs
            keep == Passing(probe.jobs)
        IN  /\ Len(out) = Cardinality(keep)
            /\ \A k \in DOMAIN out : out[k] = probe.jobs[Kth(keep, k)]

\* C10 witness: filter_jobs returned two different records of a list in
\* which a rejected record stood between them
C10_Witness ==
    /\ ~ IsNone(probe.once)
    /\ ~ probe.once[1].raised
    /\ Len(probe.jobs) = 3
    /\ Passing(probe.jobs) = {1, 3}
    /\ probe.jobs[1] # probe.jobs[3]

\* the lower-cased title and description of the record under study
ProbeText == LowerText(Join(probe.job.title, probe.job.description))

\* the text holds "full-time" or "permanent"
HasOverride(text) == TextHas(text, "full-time") \/ TextHas(text, "permanent")

\* the text holds one of the configured exclude keywords
HasExcludeKeyword(text) ==
    \E k \in DOMAIN EXCLUDE_KEYWORDS : TextHas(text, Lower(EXCLUDE_KEYWORDS[k]))

\* one of the junior-experience patterns matches the text
HasJuniorCue(text) == \E i \in DOMAIN text : text[i] \in JuniorCuePhrases

\* one of the senior-disqualification patterns matches the text
HasSeniorCue(text) == \E i \in DOMAIN text : text[i] \in SeniorCuePhrases

\* C11: filter_job rejects a record whose title carries the senior cue
\* "senior" and whose text has neither "full-time" nor "permanent"
C11_SeniorTitleRejected ==
    ( /\ ~ IsNone(probe.passed)
      /\ probe.job.kind = "dict"
      /\ TextHas(LowerText(probe.job.title), "senior")
      /\ ~ HasOverride(ProbeText) )
        => probe.passed[1] = FALSE

\* C12: filter_job returns true only for a record in whose lower-cased
\* title and description some configured search term occurs; a record for
\* which matches_role is false is rejected whatever is_experience_eligible
\* says of it
C12_RoleMatchMandatory ==
    ~ IsNone(probe.passed) =>
        /\ probe.passed[1] =>
              /\ probe.job.kind = "dict"
              /\ \E t \in DOMAIN SEARCH_TERMS :
                    TextHas(ProbeText, Lower(SEARCH_TERMS[t]))
        /\ (~ IsNone(probe.role) /\ ~ probe.role[1]) => ~ probe.passed[1]

\* C12 witness: a record that is_experience_eligible accepts and
\* matches_role does not, rejected by filter_job
C12_Witness ==
    /\ ~ IsNone(probe.passed) /\ ~ IsNone(probe.role) /\ ~ IsNone(probe.eligible)
    /\ probe.job.kind = "dict"
    /\ ~ probe.role[1]
    /\ probe.eligible[1]
    /\ ~ probe.passed[1]

\* C13: is_experience_eligible rejects every text that holds an exclude
\* keyword and neither "full-time" nor "permanent", whatever experience
\* cue it holds; when one of the two words is there, a rejection is not due
\* to the exclude keyword: it happens only on a text that holds a junior cue
\* and a senior cue
C13_InternshipExclusion ==
    ~ IsNone(probe.eligible) =>
        LET text == ProbeText
        IN  /\ (HasExcludeKeyword(text) /\ ~ HasOverride(text)) => ~ probe.eligible[1]
            /\ (HasExcludeKeyword(text) /\ HasOverride(text) /\ ~ probe.eligible[1])
                  => (HasJuniorCue(text) /\ HasSeniorCue(text))

\* C13 witness: a text with an exclude keyword, the junior cue "fresher"
\* and no override word, rejected
C13_Witness ==
    /\ ~ IsNone(probe.eligible)
    /\ HasExcludeKeyword(ProbeText)
    /\ TextHas(ProbeText, "fresher")
    /\ ~ HasOverride(ProbeText)
    /\ ~ probe.eligible[1]

C15_RecencySteps ==
    ScoreReturned =>
        LET d == ScoreData.days_since_posted
            r == ScoreData.breakdown.recency
        IN  /\ probe.job.posted_date.form \in {"empty", "text"} => IsNone(d)
            /\ IsNone(d) => r = 0
            /\ ~ IsNone(d) =>
                  /\ d[1] <= 1 => r = 40
                  /\ (1 < d[1] /\ d[1] <= 3) => r = 30
                  /\ (3 < d[1] /\ d[1] <= 7) => r = 20
                  /\ (7 < d[1] /\ d[1] <= 14) => r = 10
                  /\ d[1] > 14 => r = 0

\* C15 witness: a record posted 14 days ago, scored with a recency of 10
C15_Witness ==
    /\ ScoreReturned
    /\ ScoreData.days_since_posted = Some(14)
    /\ ScoreData.breakdown.recency = 10

\* the keys of the metadata the rule in force finds for the company: the
\* key equal to it, else the keys equal to it up to case, else the keys
\* that contain it or are contained in it, up to case
KeysFound(company, metadata) ==
    LET exact == { i \in DOMAIN metadata : metadata[i].name = company }
        folded == { i \in DOMAIN metadata : Lower(metadata[i].name) = Lower(company) }
        partial == { i \in DOMAIN metadata :
                       \/ StrIn(Lower(metadata[i].name), Lower(company))
                       \/ StrIn(Lower(company), Lower(metadata[i].name)) }
    IN  IF company = "" THEN {}
        ELSE IF exact # {} THEN exact
        ELSE IF folded # {} THEN folded
        ELSE partial

\* C17: the tier is that of a key found by the first of the rules exact
\* match, case-insensitive equality, containment in either direction that
\* finds any key, and null when none does; the company component is 30 for
\* FAANG, 25 for unicorn, 15 for well_funded and 0 otherwise
C17_CompanyTierPriority ==
    ScoreReturned =>
        LET found == KeysFound(probe.job.company, companies_metadata)
            tier == ScoreData.company_tier
            c == ScoreData.breakdown.company
        IN  /\ found = {} => IsNone(tier)
            /\ found # {} => \E i \in found : tier = companies_metadata[i].tier
            /\ tier = Some("FAANG") => c = 30
            /\ tier = Some("unicorn") => c = 25
            /\ tier = Some("well_funded") => c = 15
            /\ tier \notin {Some("FAANG"), Some("unicorn"), Some("well_funded")} => c = 0

\* C17 witness: a company that is a key of the metadata, stored after a key
\* of another tier that equals it up to case, scored by the tier of its own key
C17_Witness ==
    /\ ScoreReturned
    /\ \E i, j \in DOMAIN companies_metadata :
          /\ j < i
          /\ companies_metadata[i].name = probe.job.company
          /\ companies_metadata[j].name # probe.job.company
          /\ Lower(companies_metadata[j].name) = Lower(probe.job.company)
          /\ companies_metadata[j].tier # companies_metadata[i].tier
          /\ ScoreData.company_tier = companies_metadata[i].tier
    /\ ScoreData.breakdown.company = 30

\* the place of a bucket in the order Fresh < Recent < Moderate < Old
FreshnessRank(bucket) ==
    CASE bucket = "Fresh" -> 1
      [] bucket = "Recent" -> 2
      [] bucket = "Moderate" -> 3
      [] bucket = "Old" -> 4
      [] OTHER -> 0

\* C16: for two non-null values d1 < d2 of days_since_posted the bucket of
\* d1 is not older than the bucket of d2, and the bucket is Unknown exactly
\* when days_since_posted is null
C16_FreshnessMonotone ==
    (~ IsNone(probe.f1) /\ ~ IsNone(probe.f2)) =>
        /\ (~ IsNone(probe.d1) /\ ~ IsNone(probe.d2) /\ probe.d1[1] < probe.d2[1])
              => FreshnessRank(probe.f1[1]) <= FreshnessRank(probe.f2[1])
        /\ probe.f1[1] = "Unknown" <=> IsNone(probe.d1)
        /\ probe.f2[1] = "Unknown" <=> IsNone(probe.d2)
        /\ ~ IsNone(probe.d1) => FreshnessRank(probe.f1[1]) \in 1..4

\* C16 witness: two values a week apart, the earlier one Recent and the
\* later one Moderate
C16_Witness ==
    /\ ~ IsNone(probe.f1) /\ ~ IsNone(probe.f2)
    /\ ~ IsNone(probe.d1) /\ ~ IsNone(probe.d2)
    /\ probe.d1[1] + 7 = probe.d2[1]
    /\ probe.f1[1] = "Recent"
    /\ probe.f2[1] = "Moderate"

\* C18: extract("Package: 15-25 LPA") returns the rupee sign, 15.0, 25.0
\* and the unit LPA: the range in LPA form with one decimal
C18_LpaRangeInLpaForm ==
    (~ IsNone(probe.result) /\ probe.text = << "Package:", "15-25 LPA" >>) =>
        probe.result[1] = Some([ style |-> "lpa", symbol |-> "INR", single |-> FALSE,
                                 lo |-> 150, hi |-> 250 ])

\* the three records scraped match the scenario: they come from two
\* sources, all pass the filter, one has a trimmed url that is persisted,
\* the other two have distinct non-empty trimmed urls, and record m is
\* posted "2 days ago" with "$90k-110k" and a junior cue in its description
Scenario(m) ==
    /\ Len(all_jobs) = 3
    /\ Cardinality({ all_jobs[i].source : i \in DOMAIN all_jobs }) = 2
    /\ \A i \in DOMAIN all_jobs : all_jobs[i].kind = "dict" /\ filter_job(all_jobs[i])
    /\ Cardinality({ i \in DOMAIN all_jobs : Strip(all_jobs[i].url) \in existing_urls }) = 1
    /\ Cardinality({ Strip(all_jobs[i].url) : i \in DOMAIN all_jobs }
                      \ ({ << >> } \cup existing_urls)) = 2
    /\ Strip(all_jobs[m].url) \notin existing_urls
    /\ all_jobs[m].posted_date = PostedDate("days_ago", 2)
    /\ TextHas(all_jobs[m].description, "$90k-110k")
    /\ HasJuniorCue(LowerText(Join(all_jobs[m].title, all_jobs[m].description)))

\* the place in the written list of the record scored from job
PlaceOf(job) ==
    CHOOSE k \in DOMAIN written[1] : [ written[1][k] EXCEPT !.computed = None ] = job

\* the record was scored without a salary and as posted more than 2 days ago
NoSalaryAndOlder(rec) ==
    /\ IsNone(Computed(rec).salary)
    /\ ~ IsNone(Computed(rec).days_since_posted)
    /\ Computed(rec).days_since_posted[1] > 2

OriginalFields(job) ==
    [ title |-> job.title, company |-> job.company, location |-> job.location,
      url |-> job.url, experience |-> job.experience,
      description |-> job.description, posted_date |-> job.posted_date,
      source |-> job.source ]

\* the names of the computed fields
ComputedFieldNames ==
    { "priority_score", "days_since_posted", "freshness", "salary", "deadline",
      "days_until_deadline", "skills_match_pct" }

\* C20: once the scoring loop has run, the i-th scored record has the
\* title, company, location, url, experience, description, posted_date and
\* source of the i-th record given to it and carries exactly the computed
\* fields; sorting and writing change no field of a record, so every record
\* written is a record given to the scoring loop with its original fields
C20_ScoringKeepsOriginalFields ==
    /\ pc = "sort" =>
          /\ Len(scored_jobs) = Len(unique_jobs)
          /\ \A i \in DOMAIN scored_jobs :
                /\ OriginalFields(scored_jobs[i]) = OriginalFields(unique_jobs[i])
                /\ scored_jobs[i].kind = unique_jobs[i].kind
                /\ ~ IsNone(scored_jobs[i].computed)
                /\ DOMAIN Computed(scored_jobs[i]) = ComputedFieldNames
    /\ ~ IsNone(written) =>
          \A k \in DOMAIN written[1] :
              \E i \in DOMAIN unique_jobs :
                  /\ OriginalFields(written[1][k]) = OriginalFields(unique_jobs[i])
                  /\ DOMAIN Computed(written[1][k]) = ComputedFieldNames

\* C20 witness: the scoring loop has run over two records, one of which got
\* a salary and a score above zero and the other the defaults of a scoring
\* that raised
C20_Witness ==
    /\ pc = "sort"
    /\ \E i, j \in DOMAIN scored_jobs :
          /\ Computed(scored_jobs[i]).priority_score > 0
          /\ ~ IsNone(Computed(scored_jobs[i]).salary)
          /\ calculate_score(unique_jobs[j], companies_metadata, today).raised
          /\ Computed(scored_jobs[j]) = DefaultComputed

\* the url is an absolute http(s) url: a scheme followed by a host
IsAbsoluteHttpUrl(url) ==
    /\ Len(url) = 2
    /\ url[1] \in { "http://", "https://" }
    /\ url[2] \notin PathParts
    /\ url[2] # " "

\* the rows the write step of this run added to the file
RowsWritten == SubSeq(csv_rows, Len(csv_rows) - Len(written[1]) + 1, Len(csv_rows))

\* C21: every row written by write_jobs has a Job URL with scheme http or
\* https and a host, equal to the trimmed url of its record; a record whose
\* trimmed url is no such url gets no row
C21_OnlyValidUrlsPersisted ==
    outcome = "written" =>
        \A i \in DOMAIN written[1] :
            /\ IsAbsoluteHttpUrl(Strip(written[1][i].url))
            /\ RowsWritten[i] = Strip(written[1][i].url)
            /\ IsAbsoluteHttpUrl(RowsWritten[i])

\* the parts of a result of calculate_score that do not read the clock
TimelessPart(result) ==
    IF result.raised THEN << "raised" >>
    ELSE LET d == result.score_data[1]
         IN  << d.salary, d.deadline, d.skills_match_pct, d.company_tier,
                d.breakdown.company, d.breakdown.salary, d.breakdown.skills >>

NotKeyed(job) == job.kind \in { "none", "empty" }

\* a record that is no dict, an empty one, or one without url
Malformed(job) == NotKeyed(job) \/ Strip(job.url) = << >>

\* the list holds no malformed record
NoMalformedIn(jobs) == \A i \in DOMAIN jobs : ~ Malformed(jobs[i])

\* C23: filter_job returns false for a record that is no dict or an empty
\* one, the dedup step skips a record that is no dict or has no url after
\* trimming, no such record is scored or written, and a run whose records
\* are malformed at worst goes on to write the well-formed ones
C23_MalformedDroppedQuietly ==
    /\ \A i \in DOMAIN all_jobs : NotKeyed(all_jobs[i]) => ~ filter_job(all_jobs[i])
    /\ \A i \in DOMAIN filtered_jobs : ~ NotKeyed(filtered_jobs[i])
    /\ NoMalformedIn(remove_duplicates(all_jobs, existing_urls))
    /\ NoMalformedIn(unique_jobs)
    /\ NoMalformedIn(scored_jobs)
    /\ ~ IsNone(written) => NoMalformedIn(written[1])
    /\ (pc = "done" /\ ~ PoisonScraped) =>
          /\ outcome # "filter_failed"
          /\ (\E i \in DOMAIN all_jobs :
                 /\ ~ filter_job_raises(all_jobs[i])
                 /\ filter_job(all_jobs[i])
                 /\ Strip(all_jobs[i].url) # << >>
                 /\ Strip(all_jobs[i].url) \notin existing_urls)
               => outcome = "written"

\* C23 witness: a run that scraped a record that is no dict and a record
\* that passes the filter but has a blank url, and wrote other records
C23_Witness ==
    /\ outcome = "written"
    /\ \E i \in DOMAIN all_jobs : all_jobs[i].kind = "none"
    /\ \E i \in DOMAIN filtered_jobs : Strip(filtered_jobs[i].url) = << >>
    /\ written[1] # << >>

\* the words that flag a row ready, and applied
ReadyWords == { "yes", "true", "1", "y" }
AppliedWords == { "yes", "true", "1" }

\* the cell, trimmed and lower-cased, is one of the words
CellIs(cell, words) ==
    LET s == Strip(cell) IN Len(s) = 1 /\ FlagLower(s[1]) \in words

\* the returned rows are rows of the CSV, each taken once, in positions
\* given by an injection
TakenFrom(result, jobs) ==
    \E f \in [ DOMAIN result -> DOMAIN jobs ] :
        /\ \A i \in DOMAIN result : jobs[f[i]] = result[i]
        /\ \A i, j \in DOMAIN result : i # j => f[i] # f[j]

\* C24: every row get_jobs_to_apply returns is a row of the CSV flagged
\* ready to apply and not flagged applied; the rows come highest priority
\* score first and are no more than MAX_APPLICATIONS_PER_RUN when that is
\* positive
C24_ReadyNotAppliedSortedLimited ==
    (~ IsNone(probe.result) /\ ~ probe.result[1].raised) =>
        LET result == probe.result[1].jobs
            max == probe.cfg.MAX_APPLICATIONS_PER_RUN
        IN  /\ TakenFrom(result, probe.jobs)
            /\ \A i \in DOMAIN result :
                  /\ CellIs(result[i].ready_to_apply, ReadyWords)
                  /\ ~ CellIs(result[i].applied, AppliedWords)
            /\ \A i, j \in DOMAIN result :
                  i < j => float_or_zero(result[i].priority_score)
                             >= float_or_zero(result[j].priority_score)
            /\ max > 0 => Len(result) <= max

\* C24 witness: the CSV holds a ready row of score 30 before a ready row of
\* score 80 and the limit is 1; the row of score 80 is returned alone
C24_Witness ==
    /\ ~ IsNone(probe.result) /\ ~ probe.result[1].raised
    /\ probe.cfg.MAX_APPLICATIONS_PER_RUN = 1
    /\ Len(probe.jobs) = 2
    /\ \A i \in { 1, 2 } : is_ready_to_apply(probe.jobs[i]) /\ ~ already_applied(probe.jobs[i])
    /\ probe.jobs[1].priority_score = ScoreCell("number", 30)
    /\ probe.jobs[2].priority_score = ScoreCell("number", 80)
    /\ probe.result[1].jobs = << probe.jobs[2] >>

\* the status seen in an attempt, in a response or in an error
SeenStatus(o) == IF IsNone(o.status) THEN 0 ELSE o.status[1]

\* the attempt failed: no response of a status below 400
FailedAttempt(o) == o.kind # "response" \/ o.status[1] >= 400

\* what holds of a call of _make_request at every moment
RequestBounded ==
    /\ Len(probe.log) <= MAX_RETRIES
    /\ \A i \in DOMAIN probe.log :
          i < Len(probe.log) =>
              /\ FailedAttempt(probe.log[i])
              /\ SeenStatus(probe.log[i]) \notin { 401, 403, 404 }
    /\ probe.at = "returned" =>
          /\ probe.result \in { "response", "none" }
          /\ probe.result = "response" <=>
                ~ FailedAttempt(probe.log[Len(probe.log)])
    /\ probe.at # "returned" => probe.result = "pending"

\* C25: a call of _make_request returns, a response or None, after at most
\* MAX_RETRIES attempts; an attempt other than the first follows a failed
\* attempt, and no attempt follows one in which status 401, 403 or 404 was
\* seen
C25_RequestTerminatesWithinRetries ==
    /\ [] RequestBounded
    /\ <> (probe.at = "returned")

\* C25 witness: the call returned None after MAX_RETRIES failed attempts
C25_Witness ==
    /\ pc = "make_request"
    /\ probe.at = "returned"
    /\ probe.result = "none"
    /\ Len(probe.log) = MAX_RETRIES
    /\ Len(probe.slept) = MAX_RETRIES - 1

\* the elements of a sequence
Range(s) == { s[i] : i \in DOMAIN s }

\* no two rows of the CSV hold the same job url
NoTwoRowsOfOneUrl ==
    \A i, j \in DOMAIN csv_rows :
        (i # j /\ Strip(csv_rows[i]) # << >>) => Strip(csv_rows[i]) # Strip(csv_rows[j])

\* C26: the url of a record admitted and written in one run is in the set
\* get_existing_urls returns in every later run, no later run admits a
\* record of that url, and no two rows of the CSV hold the same job url
C26_PersistedAtMostOnce ==
    /\ \A i, j \in DOMAIN probe :
          (i < j /\ probe[i].wrote) =>
              /\ Range(probe[i].admitted) \subseteq probe[j].existing
              /\ Range(probe[i].admitted) \cap Range(probe[j].admitted) = {}
    /\ NoTwoRowsOfOneUrl

\* the rows before a step are the first rows after it
RowsKept == IsPrefix(csv_rows, csv_rows')

\* C27: no run removes a row an earlier run persisted; whatever a run writes
\* comes after the rows the file held
C27_RunsOnlyAppend == [][RowsKept]_vars

\* a step in which write_jobs was not called leaves the CSV as it was
NoWriteNoChange == written' = None => csv_rows' = csv_rows

\* C28: a run that ends with no new unique job (nothing scraped, nothing
\* passing the filter, or nothing left by the dedup step) has called neither
\* write_jobs nor write_timestamped_jobs, and the CSV is as it was
C28_NoNewJobNoWrite ==
    /\ [] ( (pc = "done" /\ unique_jobs = << >>) =>
               /\ written = None
               /\ ~ StageDone("write")
               /\ outcome \in { "no_jobs", "no_match", "no_new", "filter_failed" } )
    /\ [][NoWriteNoChange]_vars

\* C28 witness: a run on a CSV with a row ended after the dedup step, every
\* record that passed the filter being persisted already or without url
C28_Witness ==
    /\ pc = "done"
    /\ outcome = "no_new"
    /\ filtered_jobs # << >>
    /\ unique_jobs = << >>
    /\ csv_rows = << UrlA >>
    /\ written = None

\* the posted_date is a date later than the day of the call
LaterThanNow(posted_date) == posted_date.form = "iso" /\ posted_date.n > today

\* no format and no relative pattern fits the posted_date
Unparseable(posted_date) == posted_date.form \in { "empty", "text" }

\* C29: the days_since_posted calculate_score returns is null or an integer
\* that is not negative; it is null only for a posted_date that does not
\* parse, and 0 for a posted_date later than now
C29_DaysSincePostedNotNegative ==
    (pc = "calculate_score" /\ ~ IsNone(probe.result) /\ ~ probe.result[1].raised) =>
        LET days == probe.result[1].score_data[1].days_since_posted
            posted_date == probe.job.posted_date
        IN  /\ IsNone(days) \/ (days[1] \in Nat)
            /\ IsNone(days) <=> Unparseable(posted_date)
            /\ LaterThanNow(posted_date) => days = Some(0)

\* C29 witness: calculate_score returned days_since_posted 0 for a record
\* posted five days after the day of the call
C29_Witness ==
    /\ pc = "calculate_score"
    /\ ~ IsNone(probe.result) /\ ~ probe.result[1].raised
    /\ probe.job.posted_date = PostedDate("iso", today + 5)
    /\ probe.result[1].score_data[1].days_since_posted = Some(0)

\* the four outcome counters together
OutcomeCount(stats) == stats.successful + stats.failed + stats.skipped + stats.needs_manual

\* C30: at every moment of process_applications, also after attempts in
\* which apply_to_job raised, total_processed is the sum of successful,
\* failed, skipped and needs_manual, and the four counters together count
\* the jobs attempted, one each
C30_StatsAddUp ==
    pc = "process_applications" =>
        /\ probe.stats.total_processed = OutcomeCount(probe.stats)
        /\ OutcomeCount(probe.stats) = Len(probe.attempts)

====
